---- MODULE Spec2Model ----
(***************************************************************************)
(* Citadel: the AG-UI event bus (citadel_frontend/protocol/events.py) and  *)
(* the agent workflow lifecycle (citadel_api/routes/agent.py).             *)
(*                                                                         *)
(* Scheduling model.  Everything runs on one asyncio event loop.  A        *)
(* coroutine is only suspended where it awaits something that is not yet   *)
(* done; `await queue.put(x)` on an unbounded asyncio.Queue never          *)
(* suspends, so the code between two calls into the execution engine is    *)
(* one atomic step.  Calls into the engine (arun, submit_action,           *)
(* submit_feedback, cancel) are awaited and may suspend, so each handler   *)
(* is cut there and nowhere else.  Tasks made with asyncio.create_task are *)
(* started by the loop in creation order.                                  *)
(*                                                                         *)
(* Timestamps are left out of the events: nothing below depends on them.   *)
(***************************************************************************)
EXTENDS Integers, Sequences, FiniteSets, TLC

\* ------------------------------------------------------------------------
\* Bounds
\* ------------------------------------------------------------------------
MaxBusSubscribers == 2
MaxPublished == 2
MaxSubscribers == 1
MaxEngineEvents == 1
MaxRequests == 1
MaxAttached == 2
MaxStarts == 2
MaxStops == 2
MaxCloses == 2
MaxConnects == 2
MaxFrames == 2
MaxPatchOps == 2
MaxGraphs == 2
MaxExecutions == 1
MaxEmits == 2
MaxProcessed == 2
MaxRetries == 2
MaxCalls == 2

VARIABLES
    \* --- EventBus (events.py) ---
    subscribers,      \* EventBus.subscribers: the dict, as its entries in insertion order
    bus_queue,        \* contents of each asyncio.Queue made by subscribe, by queue id
    consumer_types,   \* QueueEventConsumer.event_types of the consumer owning each queue
    consumed,         \* events yielded so far by each consumer's consume()
    published,        \* history: every event handed to publish, in call order
    sub_at,           \* history: Len(published) when the queue was subscribed
    unsub_at,         \* history: Len(published) when it was unsubscribed, -1 while registered
    \* --- agent routes (agent.py) ---
    active_workflows, \* active_workflows: workflow id -> record
    event_queues,     \* event_queues: workflow id -> list of subscriber queue ids
    queues,           \* every event put on each subscriber queue, in put order
    run_pc,           \* position of the background task _run_agent_workflow
    pending_tasks,    \* _handle_workflow_event tasks created by the callback, not yet run
    engine_emitted,   \* number of events the engine has handed to the callback
    emitted_at_return,\* history: engine_emitted when arun returned or raised, -1 before
    request_pc,       \* handlers suspended in an engine call: request kind -> position
    engine_calls,     \* number of calls made into the engine, per operation
    requests,         \* number of requests that reached the engine so far
    response,         \* the last HTTP response produced by a handler
    \* --- streaming connections (agent.py, event_generator), by subscriber queue id ---
    gen_pc,           \* position of the connection's event_generator
    disconnected,     \* what request.is_disconnected() answers for the connection
    taken,            \* number of events queue.get() has taken off the queue
    frames,           \* frames the generator has yielded, oldest first
    \* --- the event loop and the tasks that publish (agent.py, _emit_event) ---
    loop_owner,       \* the task the event loop is running, or "idle"
    todo,             \* by publishing task: the status writes it has still to make
    emit,             \* by publishing task: where its _emit_event call stands
    got,              \* by subscriber queue: number of get() calls that returned
    \* --- EventProcessor (events.py) ---
    tasks,            \* every task start() has created, oldest first: its state
    self_task,        \* self.task: index into tasks, 0 for None
    starts,           \* number of start() calls made
    stop_calls,       \* by stop() call: where the call stands
    consumer_closed,  \* number of consumer.close() calls made
    emitter_closed,   \* number of emitter.close() calls made
    \* --- one transport (transport.py) ---
    transport,        \* the instance: its kind, its session/websocket, its _closed flag
    opened,           \* number of connections the transport has opened
    released,         \* number of session.close() / websocket.close() calls made
    close_calls,      \* by close() call: where the call stands
    buffer,           \* frames that arrived and receive_events has not read yet
    received,         \* frames receive_events has read, oldest first
    yielded,          \* events receive_events has yielded, oldest first
    rx_pc,            \* position of the receive_events generator
    send_result,      \* outcome of the last send_event call
    \* --- request bodies (agent.py) ---
    submitted,        \* by workflow and operation: the body of the request in flight
    \* --- one encoding and decoding of an event (ag_ui.py) ---
    codec,            \* the event encoded, its text, and what decoding the text gave
    \* --- graph routes (graph.py) ---
    graph_definitions,   \* graph id -> stored definition
    graphs_created,      \* number of graph definitions stored so far
    active_executions,   \* execution id -> record (graph_id, status, result, error)
    graph_event_queues,  \* execution id -> list of subscriber queues
    exec_pc,             \* by execution: position of _run_graph_workflow
    exec_cancel_pc,      \* by execution: position of a cancel_execution request
    graph_response,      \* the last response of the graph routes
    \* --- EventManager (events.py) ---
    mgr_queue,           \* the queue of the emitter returned by create_emitter
    mgr_task,            \* the task of the emitter's processor
    mgr_emitted,         \* the events emitted through the emitter, oldest first
    \* --- one EventProcessor between two queues (events.py) ---
    pipeline,            \* its consumer's queue and filter, its transform_fn, what it
                         \* consumed and what its emitter's queue holds
    \* --- crawler utilities (legacy/src/citadel/utils/crawler_utils.py) ---
    visited_urls,        \* the caller's visited_urls set
    request_call,        \* the safe_request call in progress or last finished
    wrapper_call,        \* the call of a retry_on_error wrapper, likewise
    calls                \* number of safe_request and wrapper calls made

busVars == <<subscribers, bus_queue, consumer_types, consumed, published,
             sub_at, unsub_at>>
wfVars == <<active_workflows, event_queues, queues, run_pc, pending_tasks,
            engine_emitted, emitted_at_return, request_pc, engine_calls,
            requests, response>>
streamVars == <<gen_pc, disconnected, taken, frames>>
\* State of the components an EventBus or route step never touches
emitVars == <<loop_owner, todo, emit, got>>
procVars == <<tasks, self_task, starts, stop_calls, consumer_closed, emitter_closed>>
transVars == <<transport, opened, released, close_calls, buffer, received, yielded,
               rx_pc, send_result>>
\* State of the protocol components other than the bus and the processor
codecVars == <<codec>>
bodyVars == <<submitted>>
graphVars == <<graph_definitions, graphs_created, active_executions, graph_event_queues,
               exec_pc, exec_cancel_pc, graph_response>>
mgrVars == <<mgr_queue, mgr_task, mgr_emitted>>
pipeVars == <<pipeline, visited_urls, request_call, wrapper_call, calls>>
laterVars == <<transVars, codecVars, bodyVars, graphVars, mgrVars, pipeVars>>
otherVars == <<streamVars, emitVars, procVars, laterVars>>
vars == <<busVars, wfVars, otherVars>>

\* ------------------------------------------------------------------------
\* EventBus
\* ------------------------------------------------------------------------

\* Two of the kinds of ag_ui.EventType are enough to tell filters apart.
BusKinds == {"RUN_STARTED", "ERROR"}

\* A filter argument: None, or a set of kinds.  `hashable` tells a frozenset
\* from a plain (mutable) set.
NoneFilter == [is_none |-> TRUE, kinds |-> {}, hashable |-> TRUE]
SetFilter(ks, h) == [is_none |-> FALSE, kinds |-> ks, hashable |-> h]
Filters == {NoneFilter} \cup {SetFilter({k}, TRUE) : k \in BusKinds}
UnhashableFilters == {SetFilter({"ERROR"}, FALSE)}

\* Mutant: the filter is not looked at.
Matches_IgnoresFilter(event_types, event) == TRUE

\* `event_types is None or event.type in event_types`
Matches(event_types, event) ==
    event_types.is_none \/ event.type \in event_types.kinds

BaseEvent(type, payload) == [type |-> type, payload |-> payload]

\* `for queue in queues: await queue.put(event)`
RECURSIVE PutEach(_, _, _)
PutEach(qs, queue_list, event) ==
    IF queue_list = <<>> THEN qs
    ELSE PutEach([qs EXCEPT ![Head(queue_list)] = Append(@, event)],
                 Tail(queue_list), event)

\* `for event_types, queues in self.subscribers.items(): if ...: for queue ...`
RECURSIVE PublishEntries(_, _, _)
PublishEntries(qs, entries, event) ==
    IF entries = <<>> THEN qs
    ELSE LET e == Head(entries)
             qs1 == IF Matches(e.event_types, event)
                    THEN PutEach(qs, e.queues, event)
                    ELSE qs
         IN PublishEntries(qs1, Tail(entries), event)

Keys(entries) == {entries[i].event_types : i \in DOMAIN entries}
IndexOfKey(entries, k) == CHOOSE i \in DOMAIN entries : entries[i].event_types = k
InSeq(x, s) == \E i \in DOMAIN s : s[i] = x
\* list.remove(x): drops the first occurrence
RemoveFirst(s, x) ==
    IF ~InSeq(x, s) THEN s
    ELSE LET i == CHOOSE j \in DOMAIN s : s[j] = x /\ \A k \in 1..(j-1) : s[k] # x
         IN SubSeq(s, 1, i-1) \o SubSeq(s, i+1, Len(s))
RemoveAt(s, i) == SubSeq(s, 1, i-1) \o SubSeq(s, i+1, Len(s))

BusQueueIds == DOMAIN bus_queue

UNCHANGED_wf == UNCHANGED <<wfVars, otherVars>>

\* EventBus.publish
publish(kind) ==
    /\ Len(published) < MaxPublished
    /\ LET event == BaseEvent(kind, Len(published) + 1)
       IN /\ bus_queue' = PublishEntries(bus_queue, subscribers, event)
          /\ published' = Append(published, event)
    /\ UNCHANGED <<subscribers, consumer_types, consumed, sub_at, unsub_at>>
    /\ UNCHANGED_wf

\* Mutant: a second subscriber of a filter is handed the queue of the first.
subscribe_SharedQueue(event_types) ==
    /\ Cardinality(BusQueueIds) < MaxBusSubscribers
    /\ event_types.hashable
    /\ IF event_types \in Keys(subscribers)
       THEN LET i == IndexOfKey(subscribers, event_types)
            IN /\ subscribers' = [subscribers EXCEPT
                                     ![i].queues = Append(@, Head(@))]
               /\ UNCHANGED <<bus_queue, consumer_types, consumed, sub_at, unsub_at>>
       ELSE LET queue == Cardinality(BusQueueIds) + 1
            IN /\ subscribers' = Append(subscribers,
                                   [event_types |-> event_types, queues |-> <<queue>>])
               /\ bus_queue' = [q \in BusQueueIds \cup {queue} |->
                                   IF q = queue THEN <<>> ELSE bus_queue[q]]
               /\ consumer_types' = [q \in BusQueueIds \cup {queue} |->
                                   IF q = queue THEN event_types ELSE consumer_types[q]]
               /\ consumed' = [q \in BusQueueIds \cup {queue} |->
                                   IF q = queue THEN <<>> ELSE consumed[q]]
               /\ sub_at' = [q \in BusQueueIds \cup {queue} |->
                                   IF q = queue THEN Len(published) ELSE sub_at[q]]
               /\ unsub_at' = [q \in BusQueueIds \cup {queue} |->
                                   IF q = queue THEN -1 ELSE unsub_at[q]]
    /\ UNCHANGED published
    /\ UNCHANGED_wf

\* EventBus.subscribe with None or a hashable set of kinds
subscribe(event_types) ==
    /\ Cardinality(BusQueueIds) < MaxBusSubscribers
    /\ event_types.hashable
    /\ LET queue == Cardinality(BusQueueIds) + 1
           with_key == IF event_types \in Keys(subscribers) THEN subscribers
                       ELSE Append(subscribers,
                                   [event_types |-> event_types, queues |-> <<>>])
           i == IndexOfKey(with_key, event_types)
       IN /\ subscribers' = [with_key EXCEPT ![i].queues = Append(@, queue)]
          /\ bus_queue' = [q \in BusQueueIds \cup {queue} |->
                              IF q = queue THEN <<>> ELSE bus_queue[q]]
          /\ consumer_types' = [q \in BusQueueIds \cup {queue} |->
                              IF q = queue THEN event_types ELSE consumer_types[q]]
          /\ consumed' = [q \in BusQueueIds \cup {queue} |->
                              IF q = queue THEN <<>> ELSE consumed[q]]
          /\ sub_at' = [q \in BusQueueIds \cup {queue} |->
                              IF q = queue THEN Len(published) ELSE sub_at[q]]
          /\ unsub_at' = [q \in BusQueueIds \cup {queue} |->
                              IF q = queue THEN -1 ELSE unsub_at[q]]
    /\ UNCHANGED published
    /\ UNCHANGED_wf

\* EventBus.subscribe with a plain set: `event_types not in self.subscribers`
\* hashes the key, and a set is unhashable: the call raises TypeError after the
\* queue was made but before anything was registered, so no subscriber exists.
subscribe_unhashable(event_types) ==
    /\ ~event_types.hashable
    /\ UNCHANGED <<subscribers, bus_queue, consumer_types, consumed, published,
                   sub_at, unsub_at>>
    /\ UNCHANGED_wf

\* Mutant: the entry is kept when its last queue is removed.
Unsubscribed_KeepsEmptyEntry(entries, queue) ==
    IF ~\E i \in DOMAIN entries : InSeq(queue, entries[i].queues) THEN entries
    ELSE LET i == CHOOSE j \in DOMAIN entries :
                     /\ InSeq(queue, entries[j].queues)
                     /\ \A k \in 1..(j-1) : ~InSeq(queue, entries[k].queues)
         IN [entries EXCEPT ![i].queues = RemoveFirst(@, queue)]

\* The entries after unsubscribe(consumer): the first entry holding the queue
\* loses it, and is deleted when it has no queue left.
Unsubscribed(entries, queue) ==
    IF ~\E i \in DOMAIN entries : InSeq(queue, entries[i].queues) THEN entries
    ELSE LET i == CHOOSE j \in DOMAIN entries :
                     /\ InSeq(queue, entries[j].queues)
                     /\ \A k \in 1..(j-1) : ~InSeq(queue, entries[k].queues)
             left == RemoveFirst(entries[i].queues, queue)
         IN IF left = <<>> THEN RemoveAt(entries, i)
            ELSE [entries EXCEPT ![i].queues = left]

\* EventBus.unsubscribe
unsubscribe(queue) ==
    /\ queue \in BusQueueIds
    /\ subscribers' = Unsubscribed(subscribers, queue)
    /\ unsub_at' = [unsub_at EXCEPT ![queue] =
                       IF @ = -1 THEN Len(published) ELSE @]
    /\ UNCHANGED <<bus_queue, consumer_types, consumed, published, sub_at>>
    /\ UNCHANGED_wf

\* One turn of QueueEventConsumer.consume: get, task_done, yield if it matches
consume(queue) ==
    /\ queue \in BusQueueIds
    /\ bus_queue[queue] # <<>>
    /\ LET event == Head(bus_queue[queue])
       IN /\ bus_queue' = [bus_queue EXCEPT ![queue] = Tail(@)]
          /\ consumed' = [consumed EXCEPT ![queue] =
                             IF Matches(consumer_types[queue], event)
                             THEN Append(@, event) ELSE @]
    /\ UNCHANGED <<subscribers, consumer_types, published, sub_at, unsub_at>>
    /\ UNCHANGED_wf

BusInit ==
    /\ subscribers = <<>>
    /\ bus_queue = <<>>
    /\ consumer_types = <<>>
    /\ consumed = <<>>
    /\ published = <<>>
    /\ sub_at = <<>>
    /\ unsub_at = <<>>

\* ------------------------------------------------------------------------
\* Agent workflow routes
\* ------------------------------------------------------------------------

\* The ids uuid4() can hand out.
Workflows == {"w1", "w2"}
\* The workflow that the specifications of one workflow follow
Followed == {"w1"}
\* Python's None
None == "None"
\* What the engine can return from arun / raise from any call.
EngineResults == {"answer_hi"}
EngineErrors == {"boom"}
EngineKinds == {"TEXT_MESSAGE_START"}

Known == DOMAIN active_workflows
QueueIds == DOMAIN queues

\* The event_data dict built by _emit_event (timestamp left out)
EventData(workflow_id, event_type, data) ==
    [workflow_id |-> workflow_id, event_type |-> event_type, data |-> data]

\* Mutant: the event is put on every subscriber queue there is.
_emit_event_Broadcast(qs, workflow_id, event_type, data) ==
    [q \in DOMAIN qs |-> Append(qs[q], EventData(workflow_id, event_type, data))]

\* _emit_event: nothing when the id has no queue list, else one put per listed queue
_emit_event(qs, workflow_id, event_type, data) ==
    IF workflow_id \notin DOMAIN event_queues THEN qs
    ELSE PutEach(qs, event_queues[workflow_id],
                 EventData(workflow_id, event_type, data))

Response(op, code, status) == [op |-> op, code |-> code, status |-> status]

\* get_workflow_status: a read of the record
get_workflow_status(workflow_id) ==
    IF workflow_id \notin Known
    THEN [code |-> 404, status |-> None, result |-> None, error |-> None]
    ELSE [code |-> 200,
          status |-> active_workflows[workflow_id].status,
          result |-> active_workflows[workflow_id].result,
          error |-> active_workflows[workflow_id].error]

UNCHANGED_bus == UNCHANGED <<busVars, otherVars>>

\* start_agent_workflow
start_agent_workflow(workflow_id) ==
    /\ workflow_id \in Workflows \ Known
    /\ event_queues' = [w \in DOMAIN event_queues \cup {workflow_id} |->
                           IF w = workflow_id THEN <<>> ELSE event_queues[w]]
    /\ active_workflows' = [w \in Known \cup {workflow_id} |->
                           IF w = workflow_id
                           THEN [status |-> "initializing", result |-> None,
                                 error |-> None]
                           ELSE active_workflows[w]]
    /\ run_pc' = [run_pc EXCEPT ![workflow_id] = "scheduled"]
    /\ response' = Response("start", 200, "initializing")
    /\ UNCHANGED <<queues, pending_tasks, engine_emitted, emitted_at_return,
                   request_pc, engine_calls, requests>>
    /\ UNCHANGED_bus

\* _run_agent_workflow, from its start to `await workflow.arun(input_data)`
run_agent_begin(workflow_id) ==
    /\ run_pc[workflow_id] = "scheduled"
    /\ active_workflows' = [active_workflows EXCEPT ![workflow_id].status = "running"]
    /\ queues' = _emit_event(queues, workflow_id, "status_update",
                             [status |-> "running"])
    /\ run_pc' = [run_pc EXCEPT ![workflow_id] = "arun"]
    /\ UNCHANGED <<event_queues, pending_tasks, engine_emitted, emitted_at_return,
                   request_pc, engine_calls, requests, response>>
    /\ UNCHANGED_bus

\* The callback given to workflow.on_event: the engine hands it one event and it
\* creates a task for _handle_workflow_event.  The engine may call it at any time
\* once it is registered, also after arun has ended.
on_event_callback(workflow_id, type) ==
    /\ run_pc[workflow_id] \in {"arun", "done"}
    /\ engine_emitted[workflow_id] < MaxEngineEvents
    /\ engine_emitted' = [engine_emitted EXCEPT ![workflow_id] = @ + 1]
    /\ pending_tasks' = [pending_tasks EXCEPT ![workflow_id] =
           Append(@, [type |-> type,
                      data |-> [seq |-> engine_emitted[workflow_id] + 1]])]
    /\ UNCHANGED <<active_workflows, event_queues, queues, run_pc,
                   emitted_at_return, request_pc, engine_calls, requests, response>>
    /\ UNCHANGED_bus

\* The AgentEventResponse(...).dict() built from an engine event
AgentEventResponse(workflow_id, event) ==
    [workflow_id |-> workflow_id, event_type |-> event.type, data |-> event.data]

\* _handle_workflow_event, run by the loop for the oldest pending task
_handle_workflow_event(workflow_id) ==
    /\ pending_tasks[workflow_id] # <<>>
    /\ LET event == Head(pending_tasks[workflow_id])
           ag_ui_event == AgentEventResponse(workflow_id, event)
       IN queues' = _emit_event(queues, workflow_id, ag_ui_event.event_type,
                                ag_ui_event)
    /\ pending_tasks' = [pending_tasks EXCEPT ![workflow_id] = Tail(@)]
    /\ UNCHANGED <<active_workflows, event_queues, run_pc, engine_emitted,
                   emitted_at_return, request_pc, engine_calls, requests, response>>
    /\ UNCHANGED_bus

\* _run_agent_workflow after arun returned `result`
run_agent_return(workflow_id, result) ==
    /\ run_pc[workflow_id] = "arun"
    /\ active_workflows' = [active_workflows EXCEPT
                               ![workflow_id].status = "completed",
                               ![workflow_id].result = result]
    /\ queues' = _emit_event(queues, workflow_id, "completion",
                             [status |-> "completed", result |-> result])
    /\ run_pc' = [run_pc EXCEPT ![workflow_id] = "done"]
    /\ emitted_at_return' = [emitted_at_return EXCEPT ![workflow_id] =
                                engine_emitted[workflow_id]]
    /\ UNCHANGED <<event_queues, pending_tasks, engine_emitted, request_pc,
                   engine_calls, requests, response>>
    /\ UNCHANGED_bus

\* Mutant: the except branch sets the status but does not record the message.
run_agent_raise_NoErrorField(workflow_id, e) ==
    /\ run_pc[workflow_id] = "arun"
    /\ active_workflows' = [active_workflows EXCEPT ![workflow_id].status = "error"]
    /\ queues' = _emit_event(queues, workflow_id, "error",
                             [status |-> "error", error |-> e])
    /\ run_pc' = [run_pc EXCEPT ![workflow_id] = "done"]
    /\ emitted_at_return' = [emitted_at_return EXCEPT ![workflow_id] =
                                engine_emitted[workflow_id]]
    /\ UNCHANGED <<event_queues, pending_tasks, engine_emitted, request_pc,
                   engine_calls, requests, response>>
    /\ UNCHANGED_bus

\* _run_agent_workflow's except branch, after arun raised Exception(e)
run_agent_raise(workflow_id, e) ==
    /\ run_pc[workflow_id] = "arun"
    /\ active_workflows' = [active_workflows EXCEPT
                               ![workflow_id].status = "error",
                               ![workflow_id].error = e]
    /\ queues' = _emit_event(queues, workflow_id, "error",
                             [status |-> "error", error |-> e])
    /\ run_pc' = [run_pc EXCEPT ![workflow_id] = "done"]
    /\ emitted_at_return' = [emitted_at_return EXCEPT ![workflow_id] =
                                engine_emitted[workflow_id]]
    /\ UNCHANGED <<event_queues, pending_tasks, engine_emitted, request_pc,
                   engine_calls, requests, response>>
    /\ UNCHANGED_bus

\* Mutant: the check also lets "initializing" through.
AcceptsActions_AlsoInitializing(status) ==
    status \in {"initializing", "running", "waiting_for_input"}

\* The status check of submit_agent_action
AcceptsActions(status) == status \in {"running", "waiting_for_input"}

InFlight(workflow_id, op) == request_pc[workflow_id][op] = "engine"

\* The handler calls into the engine and is suspended there.
CallEngine(workflow_id, op) ==
    /\ ~InFlight(workflow_id, op)
    /\ requests < MaxRequests
    /\ requests' = requests + 1
    /\ request_pc' = [request_pc EXCEPT ![workflow_id][op] = "engine"]
    /\ engine_calls' = [engine_calls EXCEPT ![op] = @ + 1]
    /\ UNCHANGED <<active_workflows, event_queues, queues, run_pc, pending_tasks,
                   engine_emitted, emitted_at_return, response>>

\* The handler raises HTTPException(code) before doing anything else.
Reject(op, code) ==
    /\ response' = Response(op, code, None)
    /\ UNCHANGED <<active_workflows, event_queues, queues, run_pc, pending_tasks,
                   engine_emitted, emitted_at_return, request_pc, engine_calls,
                   requests>>

\* The bodies a request can carry: AgentActionRequest, AgentFeedbackRequest
DefaultBody == [type |-> "t", data |-> "d"]
Bodies == {DefaultBody, [type |-> "u", data |-> "e"]}
NoBody == [type |-> None, data |-> None]
BodyOps == {"action", "feedback"}

\* The handler is called with this request body
Receive(workflow_id, op, request) ==
    submitted' = [submitted EXCEPT ![workflow_id][op] = request]
\* The handler has ended and its request is gone
Forget(workflow_id, op) ==
    submitted' = [submitted EXCEPT ![workflow_id][op] = NoBody]

\* Everything that the handlers of agent.py taking a request body leave alone
UNCHANGED_bus_etc ==
    UNCHANGED <<busVars, streamVars, emitVars, procVars, transVars, codecVars,
                graphVars, mgrVars, pipeVars>>

\* submit_agent_action called with `request`, up to
\* `await workflow.submit_action(...)`
submit_agent_action_request(workflow_id, request) ==
    /\ IF workflow_id \notin Known
       THEN Reject("action", 404) /\ UNCHANGED submitted
       ELSE IF ~AcceptsActions(active_workflows[workflow_id].status)
            THEN Reject("action", 400) /\ UNCHANGED submitted
            ELSE /\ CallEngine(workflow_id, "action")
                 /\ Receive(workflow_id, "action", request)
    /\ UNCHANGED_bus_etc

\* submit_agent_action with the default body
submit_agent_action(workflow_id) ==
    submit_agent_action_request(workflow_id, DefaultBody)

\* Mutant: the event is emitted before the outcome of the engine call is known.
submit_agent_action_done_EmitsOnFailure(workflow_id, ok) ==
    /\ InFlight(workflow_id, "action")
    /\ request_pc' = [request_pc EXCEPT ![workflow_id]["action"] = "idle"]
    /\ queues' = _emit_event(queues, workflow_id, "action_submitted",
                             [action_type |-> submitted[workflow_id]["action"].type,
                              action_data |-> submitted[workflow_id]["action"].data])
    /\ response' = IF ok THEN Response("action", 200,
                                       active_workflows[workflow_id].status)
                   ELSE Response("action", 500, None)
    /\ Forget(workflow_id, "action")
    /\ UNCHANGED <<active_workflows, event_queues, run_pc, pending_tasks,
                   engine_emitted, emitted_at_return, engine_calls, requests>>
    /\ UNCHANGED_bus_etc

\* submit_agent_action after submit_action returned (ok) or raised
submit_agent_action_done(workflow_id, ok) ==
    /\ InFlight(workflow_id, "action")
    /\ request_pc' = [request_pc EXCEPT ![workflow_id]["action"] = "idle"]
    /\ IF ok
       THEN /\ queues' = _emit_event(queues, workflow_id, "action_submitted",
                            [action_type |-> submitted[workflow_id]["action"].type,
                             action_data |-> submitted[workflow_id]["action"].data])
            /\ response' = Response("action", 200,
                                    active_workflows[workflow_id].status)
       ELSE /\ response' = Response("action", 500, None)
            /\ UNCHANGED queues
    /\ Forget(workflow_id, "action")
    /\ UNCHANGED <<active_workflows, event_queues, run_pc, pending_tasks,
                   engine_emitted, emitted_at_return, engine_calls, requests>>
    /\ UNCHANGED_bus_etc

\* Mutant: feedback gated on the status the way actions are.
submit_agent_feedback_Gated(workflow_id) ==
    /\ IF workflow_id \notin Known
       THEN Reject("feedback", 404) /\ UNCHANGED submitted
       ELSE IF ~AcceptsActions(active_workflows[workflow_id].status)
            THEN Reject("feedback", 400) /\ UNCHANGED submitted
            ELSE /\ CallEngine(workflow_id, "feedback")
                 /\ Receive(workflow_id, "feedback", DefaultBody)
    /\ UNCHANGED_bus_etc

\* submit_agent_feedback called with `request`, up to
\* `await workflow.submit_feedback(...)`
submit_agent_feedback_request(workflow_id, request) ==
    /\ IF workflow_id \notin Known
       THEN Reject("feedback", 404) /\ UNCHANGED submitted
       ELSE /\ CallEngine(workflow_id, "feedback")
            /\ Receive(workflow_id, "feedback", request)
    /\ UNCHANGED_bus_etc

\* submit_agent_feedback with the default body
submit_agent_feedback(workflow_id) ==
    submit_agent_feedback_request(workflow_id, DefaultBody)

\* submit_agent_feedback after submit_feedback returned (ok) or raised
submit_agent_feedback_done(workflow_id, ok) ==
    /\ InFlight(workflow_id, "feedback")
    /\ request_pc' = [request_pc EXCEPT ![workflow_id]["feedback"] = "idle"]
    /\ IF ok
       THEN /\ queues' = _emit_event(queues, workflow_id, "feedback_submitted",
                            [feedback_type |-> submitted[workflow_id]["feedback"].type,
                             feedback_data |-> submitted[workflow_id]["feedback"].data])
            /\ response' = Response("feedback", 200,
                                    active_workflows[workflow_id].status)
       ELSE /\ response' = Response("feedback", 500, None)
            /\ UNCHANGED queues
    /\ Forget(workflow_id, "feedback")
    /\ UNCHANGED <<active_workflows, event_queues, run_pc, pending_tasks,
                   engine_emitted, emitted_at_return, engine_calls, requests>>
    /\ UNCHANGED_bus_etc

\* cancel_workflow, up to `await workflow.cancel()`
cancel_workflow(workflow_id) ==
    /\ IF workflow_id \notin Known THEN Reject("cancel", 404)
       ELSE CallEngine(workflow_id, "cancel")
    /\ UNCHANGED_bus

\* Mutant: the status is set and the event emitted whatever cancel() did.
cancel_workflow_done_Optimistic(workflow_id, ok) ==
    /\ InFlight(workflow_id, "cancel")
    /\ request_pc' = [request_pc EXCEPT ![workflow_id]["cancel"] = "idle"]
    /\ active_workflows' = [active_workflows EXCEPT
                               ![workflow_id].status = "cancelled"]
    /\ queues' = _emit_event(queues, workflow_id, "cancelled",
                             [status |-> "cancelled"])
    /\ response' = IF ok THEN Response("cancel", 200, "cancelled")
                   ELSE Response("cancel", 500, None)
    /\ UNCHANGED <<event_queues, run_pc, pending_tasks, engine_emitted,
                   emitted_at_return, engine_calls, requests>>
    /\ UNCHANGED_bus

\* cancel_workflow after cancel() returned (ok) or raised
cancel_workflow_done(workflow_id, ok) ==
    /\ InFlight(workflow_id, "cancel")
    /\ request_pc' = [request_pc EXCEPT ![workflow_id]["cancel"] = "idle"]
    /\ IF ok
       THEN /\ active_workflows' = [active_workflows EXCEPT
                                       ![workflow_id].status = "cancelled"]
            /\ queues' = _emit_event(queues, workflow_id, "cancelled",
                                     [status |-> "cancelled"])
            /\ response' = Response("cancel", 200, "cancelled")
       ELSE /\ response' = Response("cancel", 500, None)
            /\ UNCHANGED <<active_workflows, queues>>
    /\ UNCHANGED <<event_queues, run_pc, pending_tasks, engine_emitted,
                   emitted_at_return, engine_calls, requests>>
    /\ UNCHANGED_bus

\* Mutant: the snapshot does not read the record.
subscribe_to_workflow_events_StaleSnapshot(workflow_id) ==
    /\ IF workflow_id \notin Known
       THEN Reject("events", 404)
       ELSE /\ Cardinality(QueueIds) < MaxSubscribers
            /\ LET queue == Cardinality(QueueIds) + 1
                   listed == IF workflow_id \in DOMAIN event_queues
                             THEN event_queues[workflow_id] ELSE <<>>
               IN /\ event_queues' =
                        [w \in DOMAIN event_queues \cup {workflow_id} |->
                            IF w = workflow_id THEN Append(listed, queue)
                            ELSE event_queues[w]]
                  /\ queues' = [q \in QueueIds \cup {queue} |->
                        IF q = queue
                        THEN <<EventData(workflow_id, "connection_established",
                                 [status |-> "initializing"])>>
                        ELSE queues[q]]
            /\ response' = Response("events", 200, None)
            /\ UNCHANGED <<active_workflows, run_pc, pending_tasks, engine_emitted,
                           emitted_at_return, request_pc, engine_calls, requests>>
    /\ UNCHANGED_bus

\* subscribe_to_workflow_events, up to the StreamingResponse: a new queue is
\* appended to the workflow's list and gets connection_established
subscribe_to_workflow_events(workflow_id) ==
    /\ IF workflow_id \notin Known
       THEN Reject("events", 404)
       ELSE /\ Cardinality(QueueIds) < MaxSubscribers
            /\ LET queue == Cardinality(QueueIds) + 1
                   listed == IF workflow_id \in DOMAIN event_queues
                             THEN event_queues[workflow_id] ELSE <<>>
               IN /\ event_queues' =
                        [w \in DOMAIN event_queues \cup {workflow_id} |->
                            IF w = workflow_id THEN Append(listed, queue)
                            ELSE event_queues[w]]
                  /\ queues' = [q \in QueueIds \cup {queue} |->
                        IF q = queue
                        THEN <<EventData(workflow_id, "connection_established",
                                 [status |-> active_workflows[workflow_id].status])>>
                        ELSE queues[q]]
            /\ response' = Response("events", 200, None)
            /\ UNCHANGED <<active_workflows, run_pc, pending_tasks, engine_emitted,
                           emitted_at_return, request_pc, engine_calls, requests>>
    /\ UNCHANGED_bus

\* event_generator leaving its loop: the finally clause takes the queue off the list
event_generator_exit(workflow_id, queue) ==
    /\ workflow_id \in DOMAIN event_queues
    /\ InSeq(queue, event_queues[workflow_id])
    /\ event_queues' = [event_queues EXCEPT ![workflow_id] = RemoveFirst(@, queue)]
    /\ UNCHANGED <<active_workflows, queues, run_pc, pending_tasks, engine_emitted,
                   emitted_at_return, request_pc, engine_calls, requests, response>>
    /\ UNCHANGED_bus

Ops == {"action", "feedback", "cancel"}

WfInit ==
    /\ active_workflows = <<>>
    /\ event_queues = <<>>
    /\ queues = <<>>
    /\ run_pc = [w \in Workflows |-> "none"]
    /\ pending_tasks = [w \in Workflows |-> <<>>]
    /\ engine_emitted = [w \in Workflows |-> 0]
    /\ emitted_at_return = [w \in Workflows |-> -1]
    /\ request_pc = [w \in Workflows |-> [op \in Ops |-> "idle"]]
    /\ engine_calls = [op \in Ops |-> 0]
    /\ requests = 0
    /\ response = Response("none", 0, None)
    /\ submitted = [w \in Workflows |-> [op \in BodyOps |-> NoBody]]

\* ------------------------------------------------------------------------
\* Streaming connections: event_generator
\* ------------------------------------------------------------------------
\* subscribe_to_workflow_events registers the queue and hands the server a
\* StreamingResponse around a generator that has not run yet ("unstarted").
\* The server then iterates it.  The generator is suspended at
\* request.is_disconnected() ("check"), at wait_for(queue.get()) ("wait") and
\* at each yield ("yield"); "closed" is a generator that will never run again.
\* A run of consecutive keepalive frames is recorded as one frame.

ConnIds == 1..MaxSubscribers

DataFrame(event) == [kind |-> "data", event |-> event]
KeepaliveFrame == [kind |-> "keepalive"]
IsData(frame) == frame.kind = "data"
LastIsKeepalive(q) == frames[q] # <<>> /\ ~IsData(frames[q][Len(frames[q])])

\* The workflow a subscriber queue was made for
WorkflowOf(q) == Head(queues[q]).workflow_id

\* json.dumps(event): an engine event's data is AgentEventResponse.dict(), whose
\* workflow_id is a UUID object, which json cannot serialise; the dicts built by
\* _emit_event itself hold strings only.
Serialisable(event) == event.event_type \notin EngineKinds

\* The finally clause of event_generator
FinallyRemove(q) ==
    LET w == WorkflowOf(q)
    IN event_queues' =
          IF w \in DOMAIN event_queues /\ InSeq(q, event_queues[w])
          THEN [event_queues EXCEPT ![w] = RemoveFirst(@, q)]
          ELSE event_queues

UNCHANGED_routes ==
    UNCHANGED <<active_workflows, queues, run_pc, pending_tasks, engine_emitted,
                emitted_at_return, request_pc, engine_calls, requests, response,
                busVars, emitVars, procVars, laterVars>>

\* The server starts iterating the generator: it runs up to is_disconnected()
stream_begin(q) ==
    /\ q \in QueueIds
    /\ gen_pc[q] = "unstarted"
    /\ gen_pc' = [gen_pc EXCEPT ![q] = "check"]
    /\ UNCHANGED <<event_queues, disconnected, taken, frames>>
    /\ UNCHANGED_routes

\* The response is dropped before the generator was ever iterated: closing a
\* generator that has not started runs none of its code, the try statement was
\* never entered and its finally clause does not run.
stream_abandon(q) ==
    /\ q \in QueueIds
    /\ gen_pc[q] = "unstarted"
    /\ gen_pc' = [gen_pc EXCEPT ![q] = "closed"]
    /\ UNCHANGED <<event_queues, disconnected, taken, frames>>
    /\ UNCHANGED_routes

\* The client goes away
client_disconnect(q) ==
    /\ q \in QueueIds
    /\ gen_pc[q] # "closed"
    /\ ~disconnected[q]
    /\ disconnected' = [disconnected EXCEPT ![q] = TRUE]
    /\ UNCHANGED <<event_queues, gen_pc, taken, frames>>
    /\ UNCHANGED_routes

\* Mutant: the loop does not ask whether the client is still there.
loop_check_NeverBreaks(q) ==
    /\ q \in QueueIds
    /\ gen_pc[q] = "check"
    /\ gen_pc' = [gen_pc EXCEPT ![q] = "wait"]
    /\ UNCHANGED <<event_queues, disconnected, taken, frames>>
    /\ UNCHANGED_routes

\* `if await request.is_disconnected(): break`
loop_check(q) ==
    /\ q \in QueueIds
    /\ gen_pc[q] = "check"
    /\ IF disconnected[q]
       THEN /\ FinallyRemove(q)
            /\ gen_pc' = [gen_pc EXCEPT ![q] = "closed"]
       ELSE /\ gen_pc' = [gen_pc EXCEPT ![q] = "wait"]
            /\ UNCHANGED event_queues
    /\ UNCHANGED <<disconnected, taken, frames>>
    /\ UNCHANGED_routes

\* `event = await asyncio.wait_for(queue.get(), timeout=1.0)` and the yield that
\* follows: the head of the queue as a data frame, a keepalive when the queue
\* stayed empty, or json.dumps raising out of the generator.
loop_wait(q) ==
    /\ q \in QueueIds
    /\ gen_pc[q] = "wait"
    /\ IF taken[q] < Len(queues[q])
       THEN LET event == queues[q][taken[q] + 1]
            IN /\ taken' = [taken EXCEPT ![q] = @ + 1]
               /\ IF Serialisable(event)
                  THEN /\ frames' = [frames EXCEPT ![q] = Append(@, DataFrame(event))]
                       /\ gen_pc' = [gen_pc EXCEPT ![q] = "yield"]
                       /\ UNCHANGED event_queues
                  ELSE /\ FinallyRemove(q)
                       /\ gen_pc' = [gen_pc EXCEPT ![q] = "closed"]
                       /\ UNCHANGED frames
       ELSE /\ frames' = [frames EXCEPT ![q] =
                             IF LastIsKeepalive(q) THEN @
                             ELSE Append(@, KeepaliveFrame)]
            /\ gen_pc' = [gen_pc EXCEPT ![q] = "yield"]
            /\ UNCHANGED <<taken, event_queues>>
    /\ UNCHANGED disconnected
    /\ UNCHANGED_routes

\* The server has written the frame and asks the generator for the next one
loop_resume(q) ==
    /\ q \in QueueIds
    /\ gen_pc[q] = "yield"
    /\ gen_pc' = [gen_pc EXCEPT ![q] = "check"]
    /\ UNCHANGED <<event_queues, disconnected, taken, frames>>
    /\ UNCHANGED_routes

\* An exception reaches the generator where it is suspended (the write of the
\* frame failed and the server closes it, or the serving task is cancelled):
\* it leaves through the finally clause.
loop_raise(q) ==
    /\ q \in QueueIds
    /\ gen_pc[q] \in {"check", "wait", "yield"}
    /\ FinallyRemove(q)
    /\ gen_pc' = [gen_pc EXCEPT ![q] = "closed"]
    /\ UNCHANGED <<disconnected, taken, frames>>
    /\ UNCHANGED_routes

StreamInit ==
    /\ gen_pc = [q \in ConnIds |-> "unstarted"]
    /\ disconnected = [q \in ConnIds |-> FALSE]
    /\ taken = [q \in ConnIds |-> 0]
    /\ frames = [q \in ConnIds |-> <<>>]

\* ------------------------------------------------------------------------
\* The event loop: _emit_event step by step
\* ------------------------------------------------------------------------
\* All tasks run on one event loop.  A task that has the loop keeps it until it
\* awaits something that is not ready; only then can another task run.  The
\* tasks that publish are the background run (status running, then the
\* outcome) and a cancel request resumed after the engine's cancel() returned.
\* `await queue.put(x)` suspends the caller only while the queue is full.

Publishers == {"run", "cancel"}

\* asyncio.Queue(): maxsize=0, no limit
QueueMaxSize == 0

\* A task that has not called _emit_event yet
NoEvent == EventData(None, None, [status |-> None])
NoEmit == [pc |-> "await", idx |-> 0, event |-> NoEvent, listed |-> {}]

\* Mutant: the queues hold one event.
full_Bounded(q) == Len(queues[q]) - got[q] >= 1

\* asyncio.Queue.full()
full(q) == QueueMaxSize > 0 /\ Len(queues[q]) - got[q] >= QueueMaxSize

Statuses == {"running", "completed", "error", "cancelled"}

\* The statuses a pending write can turn out to be
Outcomes(write) == IF write = "outcome" THEN {"completed", "error"} ELSE {write}

\* The fields a status write sets in the record, and the event emitted for it
WrittenRecord(record, status) ==
    [record EXCEPT !.status = status,
                   !.result = IF status = "completed"
                              THEN CHOOSE r \in EngineResults : TRUE ELSE @,
                   !.error = IF status = "error"
                             THEN CHOOSE e \in EngineErrors : TRUE ELSE @]
StatusEvent(workflow_id, status) ==
    CASE status = "running" ->
           EventData(workflow_id, "status_update", [status |-> "running"])
      [] status = "completed" ->
           EventData(workflow_id, "completion",
                     [status |-> "completed",
                      result |-> CHOOSE r \in EngineResults : TRUE])
      [] status = "error" ->
           EventData(workflow_id, "error",
                     [status |-> "error", error |-> CHOOSE e \in EngineErrors : TRUE])
      [] OTHER ->
           EventData(workflow_id, "cancelled", [status |-> "cancelled"])

UNCHANGED_requests ==
    UNCHANGED <<run_pc, pending_tasks, engine_emitted, emitted_at_return,
                request_pc, engine_calls, requests, response, busVars, streamVars,
                procVars, laterVars>>

\* Mutant: the task lets other tasks run between the status write and the emit.
emit_begin_YieldsAfterWrite(t, workflow_id, status) ==
    /\ loop_owner = "idle"
    /\ workflow_id \in Known
    /\ emit[t].pc = "await"
    /\ todo[t] # <<>> /\ status \in Outcomes(Head(todo[t]))
    /\ todo' = [todo EXCEPT ![t] = Tail(@)]
    /\ active_workflows' = [active_workflows EXCEPT
                               ![workflow_id] = WrittenRecord(@, status)]
    /\ emit' = [emit EXCEPT ![t] =
                   [pc |-> "blocked", idx |-> 0,
                    event |-> StatusEvent(workflow_id, status),
                    listed |-> {event_queues[workflow_id][i] :
                                   i \in DOMAIN event_queues[workflow_id]}]]
    /\ UNCHANGED <<loop_owner, event_queues, queues, got>>
    /\ UNCHANGED_requests

\* A publishing task gets the loop, writes the status and enters _emit_event:
\* `active_workflows[workflow_id]["status"] = ...` up to the `for` statement
emit_begin(t, workflow_id, status) ==
    /\ loop_owner = "idle"
    /\ workflow_id \in Known
    /\ emit[t].pc = "await"
    /\ todo[t] # <<>> /\ status \in Outcomes(Head(todo[t]))
    /\ todo' = [todo EXCEPT ![t] = Tail(@)]
    /\ active_workflows' = [active_workflows EXCEPT
                               ![workflow_id] = WrittenRecord(@, status)]
    /\ emit' = [emit EXCEPT ![t] =
                   [pc |-> "iterating", idx |-> 0,
                    event |-> StatusEvent(workflow_id, status),
                    listed |-> {event_queues[workflow_id][i] :
                                   i \in DOMAIN event_queues[workflow_id]}]]
    /\ loop_owner' = t
    /\ UNCHANGED <<event_queues, queues, got>>
    /\ UNCHANGED_requests

\* Mutant: every put hands the loop to the other tasks.
emit_next_YieldsAtPut(t) ==
    /\ emit[t].pc \in {"iterating", "blocked"}
    /\ loop_owner = t \/ (loop_owner = "idle" /\ emit[t].pc = "blocked")
    /\ LET listed == event_queues[emit[t].event.workflow_id]
       IN IF emit[t].idx >= Len(listed)
          THEN /\ emit' = [emit EXCEPT ![t].pc = "await"]
               /\ loop_owner' = "idle"
               /\ UNCHANGED queues
          ELSE /\ queues' = [queues EXCEPT ![listed[emit[t].idx + 1]] =
                                Append(@, emit[t].event)]
               /\ emit' = [emit EXCEPT ![t].idx = @ + 1, ![t].pc = "blocked"]
               /\ loop_owner' = "idle"
    /\ UNCHANGED <<active_workflows, event_queues, todo, got>>
    /\ UNCHANGED_requests

\* One turn of `for queue in event_queues[workflow_id]: await queue.put(event_data)`:
\* the list iterator hands out the item at its index, if the list has one
\* there, and the put appends to that queue or, the queue being full, suspends
\* the task until it is not; past the end of the list _emit_event returns and
\* the task goes on to its next await.
emit_next(t) ==
    /\ emit[t].pc \in {"iterating", "blocked"}
    /\ loop_owner = t \/ (loop_owner = "idle" /\ emit[t].pc = "blocked")
    /\ LET listed == event_queues[emit[t].event.workflow_id]
       IN IF emit[t].idx >= Len(listed)
          THEN /\ emit' = [emit EXCEPT ![t].pc = "await"]
               /\ loop_owner' = "idle"
               /\ UNCHANGED queues
          ELSE IF full(listed[emit[t].idx + 1])
          THEN /\ emit' = [emit EXCEPT ![t].pc = "blocked"]
               /\ loop_owner' = "idle"
               /\ UNCHANGED queues
          ELSE /\ queues' = [queues EXCEPT ![listed[emit[t].idx + 1]] =
                                Append(@, emit[t].event)]
               /\ emit' = [emit EXCEPT ![t].idx = @ + 1, ![t].pc = "iterating"]
               /\ loop_owner' = t
    /\ UNCHANGED <<active_workflows, event_queues, todo, got>>
    /\ UNCHANGED_requests

\* A request creates the workflow while no task has the loop
create_workflow(workflow_id) ==
    /\ loop_owner = "idle"
    /\ start_agent_workflow(workflow_id)

\* subscribe_to_workflow_events while no task has the loop: the new queue is
\* listed and gets connection_established with the status of the record
attach(workflow_id) ==
    /\ loop_owner = "idle"
    /\ workflow_id \in Known
    /\ Cardinality(QueueIds) < MaxAttached
    /\ LET queue == Cardinality(QueueIds) + 1
       IN /\ event_queues' = [event_queues EXCEPT ![workflow_id] = Append(@, queue)]
          /\ queues' = [q \in QueueIds \cup {queue} |->
                IF q = queue
                THEN <<EventData(workflow_id, "connection_established",
                         [status |-> active_workflows[workflow_id].status])>>
                ELSE queues[q]]
          /\ got' = [q \in QueueIds \cup {queue} |-> IF q = queue THEN 0 ELSE got[q]]
    /\ UNCHANGED <<active_workflows, loop_owner, todo, emit>>
    /\ UNCHANGED_requests

\* The finally clause of a connection's event_generator, while no task has the
\* loop
detach(q) ==
    /\ loop_owner = "idle"
    /\ q \in QueueIds
    /\ InSeq(q, event_queues[WorkflowOf(q)])
    /\ FinallyRemove(q)
    /\ UNCHANGED <<active_workflows, queues, loop_owner, todo, emit, got>>
    /\ UNCHANGED_requests

\* A connection's `queue.get()` returns an event, while no task has the loop
queue_get(q) ==
    /\ loop_owner = "idle"
    /\ q \in QueueIds
    /\ got[q] < Len(queues[q])
    /\ got' = [got EXCEPT ![q] = @ + 1]
    /\ UNCHANGED <<active_workflows, event_queues, queues, loop_owner, todo, emit>>
    /\ UNCHANGED_requests

EmitInit ==
    /\ loop_owner = "idle"
    /\ todo = [t \in Publishers |->
                  IF t = "run" THEN <<"running", "outcome">> ELSE <<"cancelled">>]
    /\ emit = [t \in Publishers |-> NoEmit]
    /\ got = <<>>

\* ------------------------------------------------------------------------
\* EventProcessor
\* ------------------------------------------------------------------------
\* A task is "running", "cancelling" once cancel() was called on it and it has
\* not ended yet, and done as "finished" (process_events returned), "failed"
\* (it raised) or "cancelled".  start() is a plain function and runs in one
\* piece; stop() is suspended at `await self.task` and can be overtaken there
\* by other calls.

Done == {"finished", "failed", "cancelled"}
StopCalls == 1..MaxStops
NotCalled == [pc |-> "idle", awaited |-> 0]

\* self.task.done(), for a task that exists
done(i) == tasks[i] \in Done

UNCHANGED_others == UNCHANGED <<busVars, wfVars, streamVars, emitVars, laterVars>>

\* Mutant: start() does not look at self.task.
start_Unguarded ==
    /\ starts < MaxStarts
    /\ starts' = starts + 1
    /\ tasks' = Append(tasks, "running")
    /\ self_task' = Len(tasks) + 1
    /\ UNCHANGED <<stop_calls, consumer_closed, emitter_closed>>
    /\ UNCHANGED_others

\* EventProcessor.start
start ==
    /\ starts < MaxStarts
    /\ starts' = starts + 1
    /\ IF self_task = 0 \/ done(self_task)
       THEN /\ tasks' = Append(tasks, "running")
            /\ self_task' = Len(tasks) + 1
       ELSE UNCHANGED <<tasks, self_task>>
    /\ UNCHANGED <<stop_calls, consumer_closed, emitter_closed>>
    /\ UNCHANGED_others

\* process_events ends by itself: the consumer is exhausted, or consume,
\* transform_fn or emit raised
task_ends(i, outcome) ==
    /\ i \in DOMAIN tasks
    /\ tasks[i] = "running"
    /\ outcome \in {"finished", "failed"}
    /\ tasks' = [tasks EXCEPT ![i] = outcome]
    /\ UNCHANGED <<self_task, starts, stop_calls, consumer_closed, emitter_closed>>
    /\ UNCHANGED_others

\* The cancellation reaches the task: it ends cancelled, or with the exception
\* that its code raised while it was being cancelled
task_cancelled(i, outcome) ==
    /\ i \in DOMAIN tasks
    /\ tasks[i] = "cancelling"
    /\ outcome \in {"cancelled", "failed"}
    /\ tasks' = [tasks EXCEPT ![i] = outcome]
    /\ UNCHANGED <<self_task, starts, stop_calls, consumer_closed, emitter_closed>>
    /\ UNCHANGED_others

\* EventProcessor.stop up to `await self.task`, or up to the closes when there
\* is no task to wait for
stop_begin(c) ==
    /\ stop_calls[c].pc = "idle"
    /\ \A earlier \in 1..(c-1) : stop_calls[earlier].pc # "idle"
    /\ IF self_task # 0 /\ ~done(self_task)
       THEN /\ tasks' = [tasks EXCEPT ![self_task] = "cancelling"]
            /\ stop_calls' = [stop_calls EXCEPT
                                 ![c] = [pc |-> "awaiting", awaited |-> self_task]]
       ELSE /\ stop_calls' = [stop_calls EXCEPT ![c].pc = "closing"]
            /\ UNCHANGED tasks
    /\ UNCHANGED <<self_task, starts, consumer_closed, emitter_closed>>
    /\ UNCHANGED_others

\* `await self.task` ends: CancelledError is swallowed, any other exception of
\* the task leaves stop()
stop_resume(c) ==
    /\ stop_calls[c].pc = "awaiting"
    /\ done(stop_calls[c].awaited)
    /\ stop_calls' = [stop_calls EXCEPT ![c].pc =
                         IF tasks[stop_calls[c].awaited] = "failed"
                         THEN "raised" ELSE "closing"]
    /\ UNCHANGED <<tasks, self_task, starts, consumer_closed, emitter_closed>>
    /\ UNCHANGED_others

\* Mutant: the emitter is left open.
stop_close_ConsumerOnly(c, consumer_ok) ==
    /\ stop_calls[c].pc = "closing"
    /\ consumer_closed' = consumer_closed + 1
    /\ stop_calls' = [stop_calls EXCEPT ![c].pc =
                         IF consumer_ok THEN "returned" ELSE "close_raised"]
    /\ UNCHANGED <<tasks, self_task, starts, emitter_closed>>
    /\ UNCHANGED_others

\* `await self.consumer.close()` and `await self.emitter.close()`: when the
\* first raises, the second is not reached
stop_close(c, consumer_ok) ==
    /\ stop_calls[c].pc = "closing"
    /\ consumer_closed' = consumer_closed + 1
    /\ IF consumer_ok
       THEN /\ emitter_closed' = emitter_closed + 1
            /\ stop_calls' = [stop_calls EXCEPT ![c].pc = "returned"]
       ELSE /\ stop_calls' = [stop_calls EXCEPT ![c].pc = "close_raised"]
            /\ UNCHANGED emitter_closed
    /\ UNCHANGED <<tasks, self_task, starts>>
    /\ UNCHANGED_others

ProcInit ==
    /\ tasks = <<>>
    /\ self_task = 0
    /\ starts = 0
    /\ stop_calls = [c \in StopCalls |-> NotCalled]
    /\ consumer_closed = 0
    /\ emitter_closed = 0

\* ------------------------------------------------------------------------
\* Wire format: BaseEvent.to_dict / from_dict / to_json / from_json
\* ------------------------------------------------------------------------
\* A member of the enum EventType, and the string that is its value
EventTypeValues ==
    {"RUN_STARTED", "RUN_FINISHED", "TEXT_MESSAGE_START", "TEXT_MESSAGE_CONTENT",
     "TEXT_MESSAGE_END", "TOOL_CALL_START", "TOOL_CALL_ARGS", "TOOL_CALL_END",
     "STATE_SNAPSHOT", "STATE_DELTA", "MESSAGES_SNAPSHOT", "ERROR", "STATUS_UPDATE",
     "THINKING_START", "THINKING_END", "AGENT_CHANGE"}
Member(value) == [enum |-> "EventType", name |-> value]
\* EventType(value): the member with that value, ValueError when there is none
EventType(value) ==
    IF value \in EventTypeValues THEN [ok |-> TRUE, member |-> Member(value)]
    ELSE [ok |-> FALSE, member |-> Member("ValueError")]

\* An event object: the class it was built as and its two fields
Event(class, type, payload) == [class |-> class, type |-> type, payload |-> payload]

\* A text on the wire: not JSON at all, or the JSON object with these fields
NotJson == [well_formed |-> FALSE, object |-> <<>>]
Json(object) == [well_formed |-> TRUE, object |-> object]

\* to_dict: asdict(self) with the type replaced by its value
to_dict(event) == [type |-> event.type.name, payload |-> event.payload]
\* to_json: json.dumps(self.to_dict())
to_json(event) == Json(to_dict(event))

Raised(error) == [ok |-> FALSE, error |-> error]
Returned(event) == [ok |-> TRUE, event |-> event]

\* from_dict: `EventType(data["type"])`, `data.get("payload", {})`, cls(...)
from_dict(data) ==
    IF "type" \notin DOMAIN data THEN Raised("KeyError")
    ELSE IF ~EventType(data.type).ok THEN Raised("ValueError")
    ELSE Returned(Event("BaseEvent", EventType(data.type).member,
                        IF "payload" \in DOMAIN data THEN data.payload ELSE <<>>))
\* from_json: json.loads, then from_dict
from_json(text) ==
    IF ~text.well_formed THEN Raised("JSONDecodeError") ELSE from_dict(text.object)

\* The construction helpers: subclasses of BaseEvent that fix the type and
\* build the payload
RunStartedEvent(run_id) == Event("RunStartedEvent", Member("RUN_STARTED"), [runId |-> run_id])
StateDeltaEvent(patch) == Event("StateDeltaEvent", Member("STATE_DELTA"), [patch |-> patch])
\* `if details:` leaves out details that are None or empty
ErrorEvent(error_code, message, details) ==
    Event("ErrorEvent", Member("ERROR"),
          IF details = <<>> THEN [errorCode |-> error_code, message |-> message]
          ELSE [errorCode |-> error_code, message |-> message, details |-> details])

\* The generated __eq__ of the dataclasses: same class, then field by field
eq(a, b) == a.class = b.class /\ a.type = b.type /\ a.payload = b.payload

\* JSON Patch operations, with nested values, and the patches made of them
PatchOps ==
    {[op |-> "add", path |-> "/a", value |-> [b |-> <<"x", "y">>]],
     [op |-> "replace", path |-> "/a/b", value |-> [b |-> <<"z">>]],
     [op |-> "remove", path |-> "/a"]}
Patches == UNION {[1..n -> PatchOps] : n \in 0..MaxPatchOps}

\* Payloads: JSON objects, which json.dumps and json.loads reproduce
Payloads ==
    {<<>>, [runId |-> "r1"]} \cup {[patch |-> patch] : patch \in Patches}

\* The valid events: built directly, or with a helper
ValidEvents ==
    {Event("BaseEvent", Member(value), payload) :
         value \in EventTypeValues, payload \in Payloads}
    \cup {RunStartedEvent("r1")}
    \cup {StateDeltaEvent(patch) : patch \in Patches}
    \cup {ErrorEvent("E1", "m", details) : details \in {<<>>, [hint |-> "h"]}}

NoCodec == [pc |-> "idle", input |-> Event("None", Member("None"), <<>>),
            text |-> NotJson, output |-> Raised("None")]

\* event.to_json()
encode(event) ==
    /\ codec.pc = "idle"
    /\ codec' = [codec EXCEPT !.pc = "encoded", !.input = event, !.text = to_json(event)]

\* BaseEvent.from_json(text)
decode ==
    /\ codec.pc = "encoded"
    /\ codec' = [codec EXCEPT !.pc = "decoded", !.output = from_json(codec.text)]

CodecInit == codec = NoCodec

\* ------------------------------------------------------------------------
\* Transports: SSETransport and WebSocketTransport
\* ------------------------------------------------------------------------
\* One transport instance.  handle is self.session (SSE) or self.websocket
\* (WebSocket): "none" before the first connect, "open", or "closed" once the
\* close the transport asked for has completed.  peer_gone says that the other
\* side has ended the connection.  close() is suspended in session.close() /
\* websocket.close() and can be overtaken there by other calls.

Kinds == {"sse", "ws"}
NoTransport == [kind |-> "none", handle |-> "none", peer_gone |-> FALSE, _closed |-> FALSE]
CloseCalls == 1..MaxCloses

\* The frames the peer can send
InboundFrames ==
    {NotJson, Json([payload |-> <<>>]), Json([type |-> "NOPE", payload |-> <<>>]),
     Json([type |-> "RUN_STARTED", payload |-> <<>>]),
     Json([type |-> "ERROR"])}

\* self.websocket.closed
websocket_closed == transport.handle = "closed" \/ transport.peer_gone

\* What connect() finds to do: SSE connects only when it has no session,
\* WebSocket when it has no websocket or a closed one
MustConnect ==
    IF transport.kind = "sse" THEN transport.handle = "none"
    ELSE transport.handle = "none" \/ websocket_closed
\* connect(): a new connection, with nothing received on it yet
Connected == [transport EXCEPT !.handle = "open", !.peer_gone = FALSE]

\* TransportFactory.create_sse_transport / create_websocket_transport
create_transport(kind) ==
    /\ transport.kind = "none"
    /\ transport' = [NoTransport EXCEPT !.kind = kind]
    /\ UNCHANGED <<opened, released, close_calls, buffer, received, yielded, rx_pc,
                   send_result>>

\* Mutant: the SSE transport connects before it refuses.
send_event_ConnectsFirst ==
    /\ transport.kind # "none"
    /\ MustConnect => opened < MaxConnects
    /\ transport' = IF MustConnect THEN Connected ELSE transport
    /\ opened' = IF MustConnect THEN opened + 1 ELSE opened
    /\ buffer' = IF MustConnect THEN <<>> ELSE buffer
    /\ send_result' = [outcome |-> IF transport.kind = "sse" THEN "NotImplementedError"
                                   ELSE "sent",
                       handle |-> transport.handle]
    /\ UNCHANGED <<released, close_calls, received, yielded, rx_pc>>

\* send_event: SSETransport raises NotImplementedError; WebSocketTransport
\* connects when it has to and sends
send_event ==
    /\ transport.kind # "none"
    /\ IF transport.kind = "sse"
       THEN /\ send_result' = [outcome |-> "NotImplementedError",
                               handle |-> transport.handle]
            /\ UNCHANGED <<transport, opened, buffer>>
       ELSE /\ MustConnect => opened < MaxConnects
            /\ transport' = IF MustConnect THEN Connected ELSE transport
            /\ opened' = IF MustConnect THEN opened + 1 ELSE opened
            /\ buffer' = IF MustConnect THEN <<>> ELSE buffer
            /\ send_result' = [outcome |-> "sent", handle |-> transport.handle]
    /\ UNCHANGED <<released, close_calls, received, yielded, rx_pc>>

\* The peer sends a frame
peer_sends(frame) ==
    /\ transport.handle = "open" /\ ~transport.peer_gone
    /\ Len(received) + Len(buffer) < MaxFrames
    /\ buffer' = Append(buffer, frame)
    /\ UNCHANGED <<transport, opened, released, close_calls, received, yielded, rx_pc,
                   send_result>>

\* The peer ends the connection
peer_closes ==
    /\ transport.handle = "open" /\ ~transport.peer_gone
    /\ transport' = [transport EXCEPT !.peer_gone = TRUE]
    /\ UNCHANGED <<opened, released, close_calls, buffer, received, yielded, rx_pc,
                   send_result>>

\* receive_events up to its loop: connect when there is no connection
receive_begin ==
    /\ transport.kind # "none"
    /\ rx_pc = "unstarted"
    /\ MustConnect => opened < MaxConnects
    /\ transport' = IF MustConnect THEN Connected ELSE transport
    /\ opened' = IF MustConnect THEN opened + 1 ELSE opened
    /\ buffer' = IF MustConnect THEN <<>> ELSE buffer
    /\ rx_pc' = "reading"
    /\ UNCHANGED <<released, close_calls, received, yielded, send_result>>

\* Mutant: the end of the connection is raised to the consumer.
receive_next_RaisesAtClose ==
    /\ rx_pc = "reading"
    /\ IF buffer # <<>>
       THEN LET decoded == from_json(Head(buffer))
            IN /\ buffer' = Tail(buffer)
               /\ received' = Append(received, Head(buffer))
               /\ yielded' = IF decoded.ok THEN Append(yielded, decoded.event) ELSE yielded
               /\ rx_pc' = IF decoded.ok \/ decoded.error = "JSONDecodeError"
                           THEN "reading" ELSE "raised"
       ELSE /\ transport.handle = "closed" \/ transport.peer_gone
            /\ rx_pc' = "raised"
            /\ UNCHANGED <<buffer, received, yielded>>
    /\ UNCHANGED <<transport, opened, released, close_calls, send_result>>

\* One turn of the loop of receive_events: the next frame is decoded and
\* yielded, a JSONDecodeError is swallowed, any other exception of the decoding
\* leaves the generator; with nothing left to read on an ended connection the
\* loop ends (`except ConnectionClosed: break`, the end of response.content)
receive_next ==
    /\ rx_pc = "reading"
    /\ IF buffer # <<>>
       THEN LET decoded == from_json(Head(buffer))
            IN /\ buffer' = Tail(buffer)
               /\ received' = Append(received, Head(buffer))
               /\ yielded' = IF decoded.ok THEN Append(yielded, decoded.event) ELSE yielded
               /\ rx_pc' = IF decoded.ok \/ decoded.error = "JSONDecodeError"
                           THEN "reading" ELSE "raised"
       ELSE /\ transport.handle = "closed" \/ transport.peer_gone
            /\ rx_pc' = "ended"
            /\ UNCHANGED <<buffer, received, yielded>>
    /\ UNCHANGED <<transport, opened, released, close_calls, send_result>>

\* close() up to `await self.session.close()` / `await self.websocket.close()`,
\* or to its end when the guard says there is nothing to close
close_begin(c) ==
    /\ transport.kind # "none"
    /\ close_calls[c] = "idle"
    /\ \A earlier \in 1..(c-1) : close_calls[earlier] # "idle"
    /\ LET must_release ==
               /\ ~transport._closed
               /\ transport.handle # "none"
               /\ transport.kind = "ws" => ~websocket_closed
       IN IF must_release
          THEN /\ released' = released + 1
               /\ close_calls' = [close_calls EXCEPT ![c] = "releasing"]
          ELSE /\ close_calls' = [close_calls EXCEPT ![c] = "returned"]
               /\ UNCHANGED released
    /\ UNCHANGED <<transport, opened, buffer, received, yielded, rx_pc, send_result>>

\* close() after the await: `self._closed = True`
close_end(c) ==
    /\ close_calls[c] = "releasing"
    /\ transport' = [transport EXCEPT !.handle = "closed", !._closed = TRUE]
    /\ close_calls' = [close_calls EXCEPT ![c] = "returned"]
    /\ UNCHANGED <<opened, released, buffer, received, yielded, rx_pc, send_result>>

TransInit ==
    /\ transport = NoTransport
    /\ opened = 0
    /\ released = 0
    /\ close_calls = [c \in CloseCalls |-> "idle"]
    /\ buffer = <<>>
    /\ received = <<>>
    /\ yielded = <<>>
    /\ rx_pc = "unstarted"
    /\ send_result = [outcome |-> "none", handle |-> "none"]

\* ------------------------------------------------------------------------
\* Graph routes: definitions, executions and the two status queries
\* ------------------------------------------------------------------------
\* Ids are generated by uuid4 and never reused: the n-th graph stored is
\* graph n, the n-th execution started is execution n.  Executions are never
\* removed from active_executions.  This part has no subscriber of graph
\* events, so every list of graph_event_queues is empty and _emit_event puts
\* nothing.

GraphIds == 1..MaxGraphs
ExecutionIds == 1..MaxExecutions
\* The names a request can give
GraphNames == {"g"}

Executions == DOMAIN active_executions
Graphs == DOMAIN graph_definitions

\* The HTTP status of a response
GraphResponse(code) == [code |-> code]

UNCHANGED_agent ==
    UNCHANGED <<busVars, wfVars, streamVars, emitVars, procVars, transVars, codecVars,
                bodyVars, mgrVars, pipeVars>>

\* create_graph_definition; ok is whether the graph builder compiled the graph
create_graph_definition(name, ok) ==
    /\ graphs_created < MaxGraphs
    /\ graphs_created' = IF ok THEN graphs_created + 1 ELSE graphs_created
    /\ IF ok
       THEN /\ graph_definitions' =
                   [g \in Graphs \cup {graphs_created + 1} |->
                        IF g = graphs_created + 1 THEN [name |-> name]
                        ELSE graph_definitions[g]]
            /\ graph_response' = GraphResponse(200)
       ELSE /\ graph_response' = GraphResponse(500)
            /\ UNCHANGED graph_definitions
    /\ UNCHANGED <<active_executions, graph_event_queues, exec_pc, exec_cancel_pc>>
    /\ UNCHANGED_agent

\* The executions of a graph: `exec_data.get("graph_id") == graph_id`
active_for_graph(graph_id) ==
    {e \in Executions : active_executions[e].graph_id = graph_id}

\* Mutant: a definition is deleted whatever executions refer to it.
delete_graph_definition_Unchecked(graph_id) ==
    /\ IF graph_id \notin Graphs
       THEN /\ graph_response' = GraphResponse(404)
            /\ UNCHANGED graph_definitions
       ELSE /\ graph_definitions' = [g \in Graphs \ {graph_id} |-> graph_definitions[g]]
            /\ graph_response' = GraphResponse(200)
    /\ UNCHANGED <<graphs_created, active_executions, graph_event_queues, exec_pc,
                   exec_cancel_pc>>
    /\ UNCHANGED_agent

\* Mutant: only executions that have not finished keep a definition.
delete_graph_definition_WhileUnfinished(graph_id) ==
    /\ IF graph_id \notin Graphs
       THEN /\ graph_response' = GraphResponse(404)
            /\ UNCHANGED graph_definitions
       ELSE IF \E e \in active_for_graph(graph_id) :
                  active_executions[e].status \notin {"completed", "error", "cancelled"}
       THEN /\ graph_response' = GraphResponse(400)
            /\ UNCHANGED graph_definitions
       ELSE /\ graph_definitions' = [g \in Graphs \ {graph_id} |-> graph_definitions[g]]
            /\ graph_response' = GraphResponse(200)
    /\ UNCHANGED <<graphs_created, active_executions, graph_event_queues, exec_pc,
                   exec_cancel_pc>>
    /\ UNCHANGED_agent

\* delete_graph_definition: refused while an execution refers to the graph
delete_graph_definition(graph_id) ==
    /\ IF graph_id \notin Graphs
       THEN /\ graph_response' = GraphResponse(404)
            /\ UNCHANGED graph_definitions
       ELSE IF active_for_graph(graph_id) # {}
       THEN /\ graph_response' = GraphResponse(400)
            /\ UNCHANGED graph_definitions
       ELSE /\ graph_definitions' = [g \in Graphs \ {graph_id} |-> graph_definitions[g]]
            /\ graph_response' = GraphResponse(200)
    /\ UNCHANGED <<graphs_created, active_executions, graph_event_queues, exec_pc,
                   exec_cancel_pc>>
    /\ UNCHANGED_agent

\* execute_graph
execute_graph(graph_id) ==
    /\ IF graph_id \notin Graphs
       THEN /\ graph_response' = GraphResponse(404)
            /\ UNCHANGED <<active_executions, graph_event_queues, exec_pc>>
       ELSE /\ Cardinality(Executions) < MaxExecutions
            /\ LET execution_id == Cardinality(Executions) + 1
               IN /\ graph_event_queues' =
                         [e \in Executions \cup {execution_id} |->
                              IF e = execution_id THEN <<>> ELSE graph_event_queues[e]]
                  /\ active_executions' =
                         [e \in Executions \cup {execution_id} |->
                              IF e = execution_id
                              THEN [graph_id |-> graph_id, status |-> "initializing",
                                    result |-> None, error |-> None]
                              ELSE active_executions[e]]
                  /\ exec_pc' = [exec_pc EXCEPT ![execution_id] = "scheduled"]
            /\ graph_response' = GraphResponse(200)
    /\ UNCHANGED <<graph_definitions, graphs_created, exec_cancel_pc>>
    /\ UNCHANGED_agent

\* _run_graph_workflow up to `await workflow.arun(input_data)`
run_graph_begin(execution_id) ==
    /\ exec_pc[execution_id] = "scheduled"
    /\ active_executions' = [active_executions EXCEPT ![execution_id].status = "running"]
    /\ exec_pc' = [exec_pc EXCEPT ![execution_id] = "arun"]
    /\ UNCHANGED <<graph_definitions, graphs_created, graph_event_queues, exec_cancel_pc,
                   graph_response>>
    /\ UNCHANGED_agent

\* _run_graph_workflow after arun returned `result`
run_graph_return(execution_id, result) ==
    /\ exec_pc[execution_id] = "arun"
    /\ active_executions' = [active_executions EXCEPT
                                ![execution_id].status = "completed",
                                ![execution_id].result = result]
    /\ exec_pc' = [exec_pc EXCEPT ![execution_id] = "done"]
    /\ UNCHANGED <<graph_definitions, graphs_created, graph_event_queues, exec_cancel_pc,
                   graph_response>>
    /\ UNCHANGED_agent

\* _run_graph_workflow's except branch, after arun raised Exception(e)
run_graph_raise(execution_id, e) ==
    /\ exec_pc[execution_id] = "arun"
    /\ active_executions' = [active_executions EXCEPT
                                ![execution_id].status = "error",
                                ![execution_id].error = e]
    /\ exec_pc' = [exec_pc EXCEPT ![execution_id] = "done"]
    /\ UNCHANGED <<graph_definitions, graphs_created, graph_event_queues, exec_cancel_pc,
                   graph_response>>
    /\ UNCHANGED_agent

\* cancel_execution, up to `await workflow.cancel()`; one cancel request per
\* execution is followed at a time
cancel_execution(execution_id) ==
    /\ exec_cancel_pc[execution_id] = "idle"
    /\ IF execution_id \notin Executions
       THEN /\ graph_response' = GraphResponse(404)
            /\ UNCHANGED exec_cancel_pc
       ELSE /\ exec_cancel_pc' = [exec_cancel_pc EXCEPT ![execution_id] = "engine"]
            /\ UNCHANGED graph_response
    /\ UNCHANGED <<graph_definitions, graphs_created, active_executions,
                   graph_event_queues, exec_pc>>
    /\ UNCHANGED_agent

\* cancel_execution after cancel() returned (ok) or raised
cancel_execution_done(execution_id, ok) ==
    /\ exec_cancel_pc[execution_id] = "engine"
    /\ exec_cancel_pc' = [exec_cancel_pc EXCEPT ![execution_id] = "idle"]
    /\ IF ok
       THEN /\ active_executions' = [active_executions EXCEPT
                                        ![execution_id].status = "cancelled"]
            /\ graph_response' = GraphResponse(200)
       ELSE /\ graph_response' = GraphResponse(500)
            /\ UNCHANGED active_executions
    /\ UNCHANGED <<graph_definitions, graphs_created, graph_event_queues, exec_pc>>
    /\ UNCHANGED_agent

NoStatus == [code |-> 0, graph_name |-> None, status |-> None, result |-> None,
             error |-> None]

\* get_execution_status, a read: 404 for an id that is not in
\* active_executions; a KeyError of `graph_definitions[graph_id]`, which the
\* handler does not catch, is answered 500
get_execution_status(execution_id) ==
    IF execution_id \notin Executions
    THEN [NoStatus EXCEPT !.code = 404]
    ELSE IF active_executions[execution_id].graph_id \notin Graphs
    THEN [NoStatus EXCEPT !.code = 500]
    ELSE [code |-> 200,
          graph_name |-> graph_definitions[active_executions[execution_id].graph_id].name,
          status |-> active_executions[execution_id].status,
          result |-> active_executions[execution_id].result,
          error |-> active_executions[execution_id].error]

GraphInit ==
    /\ graph_definitions = <<>>
    /\ graphs_created = 0
    /\ active_executions = <<>>
    /\ graph_event_queues = <<>>
    /\ exec_pc = [e \in ExecutionIds |-> "none"]
    /\ exec_cancel_pc = [e \in ExecutionIds |-> "idle"]
    /\ graph_response = GraphResponse(0)

\* ------------------------------------------------------------------------
\* EventManager: one emitter feeding the manager's event bus
\* ------------------------------------------------------------------------
\* create_emitter returns a QueueEventEmitter and starts an EventProcessor that
\* reads the emitter's queue and hands every event to a
\* TransportEventEmitter built on the event bus.

\* The methods of class EventBus
EventBusMethods == {"__init__", "publish", "subscribe", "unsubscribe"}

UNCHANGED_manager ==
    UNCHANGED <<busVars, wfVars, streamVars, emitVars, procVars, transVars, codecVars,
                bodyVars, graphVars, pipeVars>>

\* EventManager.create_emitter: the queue is made and the processor started
create_emitter ==
    /\ mgr_task = "none"
    /\ mgr_task' = "running"
    /\ UNCHANGED <<mgr_queue, mgr_emitted>>
    /\ UNCHANGED_manager

\* EventManager.create_consumer
create_consumer(event_types) == subscribe(event_types)

\* QueueEventEmitter.emit on the emitter returned by create_emitter
emitter_emit(kind) ==
    /\ mgr_task # "none"
    /\ Len(mgr_emitted) < MaxEmits
    /\ LET event == BaseEvent(kind, Len(mgr_emitted) + 1)
       IN /\ mgr_queue' = Append(mgr_queue, event)
          /\ mgr_emitted' = Append(mgr_emitted, event)
    /\ UNCHANGED mgr_task
    /\ UNCHANGED_manager

\* One turn of EventProcessor.process_events: the next event of the queue is
\* handed to TransportEventEmitter.emit, which calls
\* `self.transport.send_event(event)` on the event bus.  The bus has no such
\* method: the call raises AttributeError, which ends the task.
process_events ==
    /\ mgr_task = "running"
    /\ mgr_queue # <<>>
    /\ "send_event" \notin EventBusMethods
    /\ mgr_queue' = Tail(mgr_queue)
    /\ mgr_task' = "failed"
    /\ UNCHANGED mgr_emitted
    /\ UNCHANGED_manager

ManagerInit ==
    /\ mgr_queue = <<>>
    /\ mgr_task = "none"
    /\ mgr_emitted = <<>>

\* ------------------------------------------------------------------------
\* EventProcessor between a QueueEventConsumer and a QueueEventEmitter
\* ------------------------------------------------------------------------
\* The transform functions a processor is built with: none, one that filters
\* ERROR events out by returning None, one that returns a new event.
TransformFns == {"None", "drop_errors", "to_custom"}
NoneEvent == BaseEvent("None", 0)

\* transform_fn(event)
transform_fn(name, event) ==
    CASE name = "drop_errors" ->
             IF event.type = "ERROR" THEN NoneEvent ELSE event
      [] name = "to_custom" -> BaseEvent("CUSTOM", event.payload)

\* bool(object): a BaseEvent is a dataclass instance without __bool__ or
\* __len__, so every event is true and None is false
Truthy(object) == object # NoneEvent

NoPipeline == [built |-> FALSE, event_types |-> NoneFilter, transform_fn |-> "None",
               queue |-> <<>>, put |-> 0, consumed |-> <<>>, emitted |-> <<>>]

UNCHANGED_pipeline ==
    UNCHANGED <<busVars, wfVars, streamVars, emitVars, procVars, transVars, codecVars,
                bodyVars, graphVars, mgrVars, visited_urls, request_call,
                wrapper_call, calls>>

\* EventProcessor(QueueEventConsumer(queue, event_types), QueueEventEmitter(),
\*                transform_fn)
EventProcessor(event_types, transform) ==
    /\ ~pipeline.built
    /\ pipeline' = [pipeline EXCEPT !.built = TRUE, !.event_types = event_types,
                                    !.transform_fn = transform]
    /\ UNCHANGED_pipeline

\* A producer puts an event on the consumer's queue
queue_put(kind) ==
    /\ pipeline.built
    /\ pipeline.put < MaxProcessed
    /\ pipeline' = [pipeline EXCEPT
                       !.queue = Append(@, BaseEvent(kind, pipeline.put + 1)),
                       !.put = @ + 1]
    /\ UNCHANGED_pipeline

\* What one iteration hands to emitter.emit, as a sequence of zero or one event
Forwarded(transform, event) ==
    IF transform # "None"
    THEN IF Truthy(transform_fn(transform, event))
         THEN <<transform_fn(transform, event)>>
         ELSE <<>>
    ELSE <<event>>

\* Mutant: an event the transform filtered out is emitted as it was consumed.
process_events_iteration_EmitsDropped ==
    /\ pipeline.built
    /\ pipeline.queue # <<>>
    /\ LET event == Head(pipeline.queue)
       IN IF Matches(pipeline.event_types, event)
          THEN pipeline' = [pipeline EXCEPT
                   !.queue = Tail(@),
                   !.consumed = Append(@, event),
                   !.emitted = @ \o (IF Forwarded(pipeline.transform_fn, event) = <<>>
                                     THEN <<event>>
                                     ELSE Forwarded(pipeline.transform_fn, event))]
          ELSE pipeline' = [pipeline EXCEPT !.queue = Tail(@)]
    /\ UNCHANGED_pipeline

\* One iteration of `async for event in self.consumer.consume()`: the consumer
\* takes the head of its queue and yields it when it passes the filter, the
\* processor transforms it and puts the outcome on the emitter's queue.
process_events_iteration ==
    /\ pipeline.built
    /\ pipeline.queue # <<>>
    /\ LET event == Head(pipeline.queue)
       IN IF Matches(pipeline.event_types, event)
          THEN pipeline' = [pipeline EXCEPT
                   !.queue = Tail(@),
                   !.consumed = Append(@, event),
                   !.emitted = @ \o Forwarded(pipeline.transform_fn, event)]
          ELSE pipeline' = [pipeline EXCEPT !.queue = Tail(@)]
    /\ UNCHANGED_pipeline

PipelineInit == pipeline = NoPipeline

\* ------------------------------------------------------------------------
\* Crawler utilities: safe_request and retry_on_error
\* ------------------------------------------------------------------------
Urls == {"https://example.com", "https://example.org"}

\* What one session.request(...) does: it returns a response with a status
\* code, or raises requests.ConnectionError (a RequestException), or raises an
\* exception that is not a RequestException.
Response200 == [kind |-> "Response", status_code |-> 200]
Response503 == [kind |-> "Response", status_code |-> 503]
ConnectionError == [kind |-> "requests.ConnectionError", status_code |-> 0]
ValueError == [kind |-> "ValueError", status_code |-> 0]
RequestOutcomes == {Response200, Response503, ConnectionError, ValueError}

\* requests.HTTPError, as response.raise_for_status() raises it
RequestsHTTPError(resp) ==
    [kind |-> "requests.HTTPError", status_code |-> resp.status_code]
\* crawler_utils.HTTPError(status_code, url, message)
HTTPError(status_code) == [kind |-> "HTTPError", status_code |-> status_code]
NoneResult == [kind |-> "None", status_code |-> 0]

\* requests.Response.raise_for_status raises for 4xx and 5xx
RaisesForStatus(resp) == resp.status_code >= 400
\* isinstance(e, requests.RequestException)
IsRequestException(e) ==
    e.kind \in {"requests.ConnectionError", "requests.HTTPError"}

NoCall == [pc |-> "idle", url |-> "", raise_for_status |-> TRUE, max_retries |-> 0,
           attempt |-> 0, log |-> <<>>, failures |-> <<>>, returned |-> NoneResult,
           raised |-> NoneResult]

UNCHANGED_crawler ==
    UNCHANGED <<busVars, wfVars, streamVars, emitVars, procVars, transVars, codecVars,
                bodyVars, graphVars, mgrVars, pipeline>>

\* safe_request(url, session, validate_func, rate_limiter, visited_urls, ...)
\* up to the first session.request; `valid` is what validate_func answers,
\* `tracked` whether a visited_urls set was passed, `limited` whether a
\* rate limiter was.
safe_request(url, valid, tracked, limited, max_retries, raise_for_status) ==
    /\ calls < MaxCalls
    /\ request_call.pc \in {"idle", "returned", "raised"}
    /\ calls' = calls + 1
    /\ LET call == [NoCall EXCEPT !.url = url, !.max_retries = max_retries,
                                  !.raise_for_status = raise_for_status]
       IN request_call' =
              IF ~valid \/ (tracked /\ url \in visited_urls)
              THEN [call EXCEPT !.pc = "returned"]
              ELSE [call EXCEPT !.pc = IF tracked THEN "attempt_tracked" ELSE "attempt",
                                !.log = IF limited THEN <<"rate_limiter.wait">>
                                        ELSE <<>>]
    /\ UNCHANGED <<visited_urls, wrapper_call>>
    /\ UNCHANGED_crawler

\* What the try block of one attempt raises, or NoneResult when it raises nothing
AttemptError(outcome, raise_for_status) ==
    IF outcome.kind # "Response" THEN outcome
    ELSE IF raise_for_status /\ RaisesForStatus(outcome)
    THEN RequestsHTTPError(outcome)
    ELSE NoneResult

\* Mutant: the loop makes one more attempt than max_retries + 1.
session_request_OneMore(outcome) ==
    /\ request_call.pc \in {"attempt", "attempt_tracked"}
    /\ LET call == [request_call EXCEPT !.log = Append(@, "session.request")]
           e == AttemptError(outcome, request_call.raise_for_status)
       IN IF e = NoneResult
          THEN /\ request_call' = [call EXCEPT !.pc = "returned", !.returned = outcome]
               /\ visited_urls' = IF request_call.pc = "attempt_tracked"
                                  THEN visited_urls \cup {request_call.url}
                                  ELSE visited_urls
          ELSE /\ UNCHANGED visited_urls
               /\ IF ~IsRequestException(e)
                  THEN request_call' = [call EXCEPT !.pc = "raised", !.raised = e]
                  ELSE IF request_call.attempt <= request_call.max_retries
                  THEN request_call' = [call EXCEPT
                           !.attempt = @ + 1,
                           !.failures = Append(@, e),
                           !.log = Append(@, "time.sleep")]
                  ELSE IF request_call.raise_for_status /\ e.kind = "requests.HTTPError"
                  THEN request_call' = [call EXCEPT
                           !.pc = "raised", !.failures = Append(@, e),
                           !.raised = HTTPError(e.status_code)]
                  ELSE request_call' = [call EXCEPT
                           !.pc = "returned", !.failures = Append(@, e)]
    /\ UNCHANGED <<wrapper_call, calls>>
    /\ UNCHANGED_crawler

\* One iteration of `for attempt in range(max_retries + 1)` of safe_request:
\* session.request, raise_for_status, and what follows from their outcome
session_request(outcome) ==
    /\ request_call.pc \in {"attempt", "attempt_tracked"}
    /\ LET call == [request_call EXCEPT !.log = Append(@, "session.request")]
           e == AttemptError(outcome, request_call.raise_for_status)
       IN IF e = NoneResult
          THEN /\ request_call' = [call EXCEPT !.pc = "returned", !.returned = outcome]
               /\ visited_urls' = IF request_call.pc = "attempt_tracked"
                                  THEN visited_urls \cup {request_call.url}
                                  ELSE visited_urls
          ELSE /\ UNCHANGED visited_urls
               /\ IF ~IsRequestException(e)
                  THEN request_call' = [call EXCEPT !.pc = "raised", !.raised = e]
                  ELSE IF request_call.attempt < request_call.max_retries
                  THEN request_call' = [call EXCEPT
                           !.attempt = @ + 1,
                           !.failures = Append(@, e),
                           !.log = Append(@, "time.sleep")]
                  ELSE IF request_call.raise_for_status /\ e.kind = "requests.HTTPError"
                  THEN request_call' = [call EXCEPT
                           !.pc = "raised", !.failures = Append(@, e),
                           !.raised = HTTPError(e.status_code)]
                  ELSE request_call' = [call EXCEPT
                           !.pc = "returned", !.failures = Append(@, e)]
    /\ UNCHANGED <<wrapper_call, calls>>
    /\ UNCHANGED_crawler

\* The defaults of retry_on_error
retry_codes == {429, 500, 502, 503, 504}
\* `except tuple(exceptions)` with exceptions = [requests.RequestException]
IsListed(e) == IsRequestException(e)

\* What the wrapped function does in one invocation: it returns a response,
\* returns something that is not a Response, or raises
PlainResult == [kind |-> "str", status_code |-> 0]
FuncOutcomes == {Response200, Response503, PlainResult, ConnectionError, ValueError}

\* wrapper(*args, **kwargs) of retry_on_error(max_retries) is called
wrapper(max_retries) ==
    /\ calls < MaxCalls
    /\ wrapper_call.pc \in {"idle", "returned", "raised"}
    /\ calls' = calls + 1
    /\ wrapper_call' = [NoCall EXCEPT !.pc = "attempt", !.max_retries = max_retries]
    /\ UNCHANGED <<visited_urls, request_call>>
    /\ UNCHANGED_crawler

\* Mutant: a response with a retry code is returned without a retry.
func_NoRetryOnCode(outcome) ==
    /\ wrapper_call.pc = "attempt"
    /\ LET call == [wrapper_call EXCEPT !.log = Append(@, "func")]
       IN IF outcome.kind \in {"Response", "str"}
          THEN wrapper_call' = [call EXCEPT !.pc = "returned", !.returned = outcome]
          ELSE IF ~IsListed(outcome)
          THEN wrapper_call' = [call EXCEPT !.pc = "raised", !.raised = outcome]
          ELSE IF wrapper_call.attempt < wrapper_call.max_retries
          THEN wrapper_call' = [call EXCEPT
                   !.attempt = @ + 1,
                   !.failures = Append(@, outcome),
                   !.log = Append(@, "time.sleep")]
          ELSE wrapper_call' = [call EXCEPT
                   !.pc = "raised", !.failures = Append(@, outcome),
                   !.raised = outcome]
    /\ UNCHANGED <<visited_urls, request_call, calls>>
    /\ UNCHANGED_crawler

\* One iteration of `for attempt in range(max_retries + 1)` of the wrapper:
\* func(*args, **kwargs) and what follows from its outcome
func(outcome) ==
    /\ wrapper_call.pc = "attempt"
    /\ LET call == [wrapper_call EXCEPT !.log = Append(@, "func")]
       IN IF outcome.kind \in {"Response", "str"}
          THEN IF /\ outcome.kind = "Response"
                  /\ outcome.status_code \in retry_codes
                  /\ wrapper_call.attempt < wrapper_call.max_retries
               THEN wrapper_call' = [call EXCEPT
                        !.attempt = @ + 1,
                        !.failures = Append(@, outcome),
                        !.log = Append(@, "time.sleep")]
               ELSE wrapper_call' = [call EXCEPT !.pc = "returned",
                                                 !.returned = outcome]
          ELSE IF ~IsListed(outcome)
          THEN wrapper_call' = [call EXCEPT !.pc = "raised", !.raised = outcome]
          ELSE IF wrapper_call.attempt < wrapper_call.max_retries
          THEN wrapper_call' = [call EXCEPT
                   !.attempt = @ + 1,
                   !.failures = Append(@, outcome),
                   !.log = Append(@, "time.sleep")]
          ELSE wrapper_call' = [call EXCEPT
                   !.pc = "raised", !.failures = Append(@, outcome),
                   !.raised = outcome]
    /\ UNCHANGED <<visited_urls, request_call, calls>>
    /\ UNCHANGED_crawler

CrawlerInit ==
    /\ visited_urls = {}
    /\ request_call = NoCall
    /\ wrapper_call = NoCall
    /\ calls = 0

\* ------------------------------------------------------------------------
\* Specifications
\* ------------------------------------------------------------------------
Init ==
    /\ BusInit /\ WfInit /\ StreamInit /\ EmitInit /\ ProcInit /\ TransInit
    /\ CodecInit /\ GraphInit /\ ManagerInit /\ PipelineInit
    /\ CrawlerInit

Next ==
    \/ \E w \in Followed : start_agent_workflow(w)
    \/ \E w \in Followed : run_agent_begin(w)
    \/ \E w \in Followed, k \in EngineKinds : on_event_callback(w, k)
    \/ \E w \in Followed : _handle_workflow_event(w)
    \/ \E w \in Followed, r \in EngineResults : run_agent_return(w, r)
    \/ \E w \in Followed, e \in EngineErrors : run_agent_raise(w, e)
    \/ \E w \in Followed : submit_agent_action(w)
    \/ \E w \in Followed, ok \in BOOLEAN : submit_agent_action_done(w, ok)
    \/ \E w \in Followed : submit_agent_feedback(w)
    \/ \E w \in Followed, ok \in BOOLEAN : submit_agent_feedback_done(w, ok)
    \/ \E w \in Followed : cancel_workflow(w)
    \/ \E w \in Followed, ok \in BOOLEAN : cancel_workflow_done(w, ok)
    \/ \E w \in Followed : subscribe_to_workflow_events(w)
    \/ \E w \in Followed, q \in QueueIds : event_generator_exit(w, q)

Spec == Init /\ [][Next]_vars

BusNext ==
    \/ \E k \in BusKinds : publish(k)
    \/ \E f \in Filters : subscribe(f)
    \/ \E f \in UnhashableFilters : subscribe_unhashable(f)
    \/ \E q \in BusQueueIds : unsubscribe(q)
    \/ \E q \in BusQueueIds : consume(q)

SpecBus == Init /\ [][BusNext]_vars

\* One step of a connection's running generator, or of the server driving it
LoopStep(q) ==
    \/ loop_check(q)
    \/ loop_wait(q)
    \/ loop_resume(q)

\* The background run publishing, and the streaming connections
StreamNext ==
    \/ \E w \in Followed : start_agent_workflow(w)
    \/ \E w \in Followed : run_agent_begin(w)
    \/ \E w \in Followed, k \in EngineKinds : on_event_callback(w, k)
    \/ \E w \in Followed : _handle_workflow_event(w)
    \/ \E w \in Followed, r \in EngineResults : run_agent_return(w, r)
    \/ \E w \in Followed, e \in EngineErrors : run_agent_raise(w, e)
    \/ \E w \in Followed : subscribe_to_workflow_events(w)
    \/ \E q \in ConnIds : stream_begin(q)
    \/ \E q \in ConnIds : stream_abandon(q)
    \/ \E q \in ConnIds : client_disconnect(q)
    \/ \E q \in ConnIds : loop_check(q)
    \/ \E q \in ConnIds : loop_wait(q)
    \/ \E q \in ConnIds : loop_resume(q)
    \/ \E q \in ConnIds : loop_raise(q)

SpecStream == Init /\ [][StreamNext]_vars

\* The tasks of one event loop around _emit_event
LoopNext ==
    \/ \E w \in Followed : create_workflow(w)
    \/ \E t \in Publishers, w \in Followed, s \in Statuses :
           emit_begin(t, w, s)
    \/ \E t \in Publishers : emit_next(t)
    \/ \E w \in Followed : attach(w)
    \/ \E q \in 1..MaxAttached : detach(q)
    \/ \E q \in 1..MaxAttached : queue_get(q)

SpecLoop == Init /\ [][LoopNext]_vars

\* One EventProcessor, its callers and its background tasks
ProcNext ==
    \/ start
    \/ \E i \in 1..MaxStarts, outcome \in {"finished", "failed"} : task_ends(i, outcome)
    \/ \E i \in 1..MaxStarts, outcome \in {"cancelled", "failed"} :
           task_cancelled(i, outcome)
    \/ \E c \in StopCalls : stop_begin(c)
    \/ \E c \in StopCalls : stop_resume(c)
    \/ \E c \in StopCalls, consumer_ok \in BOOLEAN : stop_close(c, consumer_ok)

SpecProc == Init /\ [][ProcNext]_vars

UNCHANGED_protocol ==
    UNCHANGED <<busVars, wfVars, streamVars, emitVars, procVars, codecVars, bodyVars,
                graphVars, mgrVars, pipeVars>>

\* One transport, its callers and its peer
TransNext ==
    \/ \E kind \in Kinds : create_transport(kind) /\ UNCHANGED_protocol
    \/ send_event /\ UNCHANGED_protocol
    \/ \E frame \in InboundFrames : peer_sends(frame) /\ UNCHANGED_protocol
    \/ peer_closes /\ UNCHANGED_protocol
    \/ receive_begin /\ UNCHANGED_protocol
    \/ receive_next /\ UNCHANGED_protocol
    \/ \E c \in CloseCalls : close_begin(c) /\ UNCHANGED_protocol
    \/ \E c \in CloseCalls : close_end(c) /\ UNCHANGED_protocol

SpecTransport == Init /\ [][TransNext]_vars

\* Workflows receiving actions and feedback with any body, and their subscribers
SubmitNext ==
    \/ \E w \in Followed : start_agent_workflow(w)
    \/ \E w \in Followed : run_agent_begin(w)
    \/ \E w \in Followed, r \in EngineResults : run_agent_return(w, r)
    \/ \E w \in Followed, e \in EngineErrors : run_agent_raise(w, e)
    \/ \E w \in Followed, request \in Bodies : submit_agent_action_request(w, request)
    \/ \E w \in Followed, ok \in BOOLEAN : submit_agent_action_done(w, ok)
    \/ \E w \in Followed, request \in Bodies : submit_agent_feedback_request(w, request)
    \/ \E w \in Followed, ok \in BOOLEAN : submit_agent_feedback_done(w, ok)
    \/ \E w \in Followed : subscribe_to_workflow_events(w)
    \/ \E w \in Followed, q \in QueueIds : event_generator_exit(w, q)

SpecSubmit == Init /\ [][SubmitNext]_vars

\* Workflows and graph executions through their lives, definitions created and
\* deleted, and status queries at any moment
StatusNext ==
    \/ \E w \in Followed : start_agent_workflow(w)
    \/ \E w \in Followed : run_agent_begin(w)
    \/ \E w \in Followed, r \in EngineResults : run_agent_return(w, r)
    \/ \E w \in Followed, e \in EngineErrors : run_agent_raise(w, e)
    \/ \E w \in Followed : cancel_workflow(w)
    \/ \E w \in Followed, ok \in BOOLEAN : cancel_workflow_done(w, ok)
    \/ \E name \in GraphNames, ok \in BOOLEAN : create_graph_definition(name, ok)
    \/ \E g \in GraphIds : delete_graph_definition(g)
    \/ \E g \in GraphIds : execute_graph(g)
    \/ \E e \in ExecutionIds : run_graph_begin(e)
    \/ \E e \in ExecutionIds, r \in EngineResults : run_graph_return(e, r)
    \/ \E e \in ExecutionIds, x \in EngineErrors : run_graph_raise(e, x)
    \/ \E e \in ExecutionIds : cancel_execution(e)
    \/ \E e \in ExecutionIds, ok \in BOOLEAN : cancel_execution_done(e, ok)

SpecStatus == Init /\ [][StatusNext]_vars

\* An emitter of the manager, its users and the consumers of the bus
ManagerNext ==
    \/ create_emitter
    \/ \E f \in Filters : create_consumer(f)
    \/ \E k \in BusKinds : emitter_emit(k)
    \/ process_events

\* One processor, the producer feeding its consumer
PipelineNext ==
    \/ \E f \in Filters, t \in TransformFns : EventProcessor(f, t)
    \/ \E k \in BusKinds : queue_put(k)
    \/ process_events_iteration

SpecPipeline == Init /\ [][PipelineNext]_vars

\* Two workflows side by side, their subscribers, runs and cancel requests
IsolationNext ==
    \/ \E w \in Workflows : create_workflow(w)
    \/ \E w \in Workflows : attach(w)
    \/ \E w \in Workflows : run_agent_begin(w)
    \/ \E w \in Workflows, r \in EngineResults : run_agent_return(w, r)
    \/ \E w \in Workflows, e \in EngineErrors : run_agent_raise(w, e)
    \/ \E w \in Workflows : cancel_workflow(w)
    \/ \E w \in Workflows, ok \in BOOLEAN : cancel_workflow_done(w, ok)

SpecIsolation == Init /\ [][IsolationNext]_vars

\* Calls of safe_request and the answers of the session
RequestNext ==
    \/ \E url \in Urls, valid \in BOOLEAN, tracked \in BOOLEAN, limited \in BOOLEAN,
          max_retries \in 0..MaxRetries, raise_for_status \in BOOLEAN :
          safe_request(url, valid, tracked, limited, max_retries, raise_for_status)
    \/ \E outcome \in RequestOutcomes : session_request(outcome)

SpecRequest == Init /\ [][RequestNext]_vars

\* Calls of a wrapped function and what the function does
RetryNext ==
    \/ \E max_retries \in 0..MaxRetries : wrapper(max_retries)
    \/ \E outcome \in FuncOutcomes : func(outcome)

SpecRetry == Init /\ [][RetryNext]_vars

\* The event loop keeps running the processor's task
SpecManager == Init /\ [][ManagerNext]_vars /\ WF_vars(process_events)

UNCHANGED_codec ==
    UNCHANGED <<busVars, wfVars, streamVars, emitVars, procVars, transVars, bodyVars,
                graphVars, mgrVars, pipeVars>>

\* One event encoded and decoded again
CodecNext ==
    \/ \E event \in ValidEvents : encode(event) /\ UNCHANGED_codec
    \/ decode /\ UNCHANGED_codec

SpecCodec == Init /\ [][CodecNext]_vars

\* The event loop keeps running the task that serves a connection: the
\* disconnect check returns, the queue wait ends after the poll timeout at the
\* latest and a frame handed to the server is written or fails.
\* The streaming loops next to a run that publishes its own events only
\* (status_update, completion)
StreamLoopNext ==
    \/ \E w \in Followed : start_agent_workflow(w)
    \/ \E w \in Followed : run_agent_begin(w)
    \/ \E w \in Followed, r \in EngineResults : run_agent_return(w, r)
    \/ \E w \in Followed : subscribe_to_workflow_events(w)
    \/ \E q \in ConnIds : stream_begin(q)
    \/ \E q \in ConnIds : stream_abandon(q)
    \/ \E q \in ConnIds : client_disconnect(q)
    \/ \E q \in ConnIds : loop_check(q)
    \/ \E q \in ConnIds : loop_wait(q)
    \/ \E q \in ConnIds : loop_resume(q)
    \/ \E q \in ConnIds : loop_raise(q)
SpecStreamFair ==
    Init /\ [][StreamLoopNext]_vars /\ \A q \in ConnIds : WF_vars(LoopStep(q))

\* ------------------------------------------------------------------------
\* Properties of the event bus (checked under SpecBus)
\* ------------------------------------------------------------------------

InFilter(f, e) == f.is_none \/ e.type \in f.kinds

\* What a queue should have been given: the events published from its subscribe
\* to its unsubscribe (or to now) that its filter lets through, in publish order.
ExpectedDelivery(q) ==
    LET upto == IF unsub_at[q] = -1 THEN Len(published) ELSE unsub_at[q]
    IN SelectSeq(SubSeq(published, sub_at[q] + 1, upto),
                 LAMBDA e : InFilter(consumer_types[q], e))

\* C1: under every interleaving of publish, subscribe, unsubscribe and consume,
\* what a subscriber has consumed followed by what still waits in its queue is
\* exactly the sequence of events published while it was subscribed and matching
\* its filter, in publish order: nothing reordered, duplicated or dropped.
C1_ExactDelivery ==
    \A q \in BusQueueIds : consumed[q] \o bus_queue[q] = ExpectedDelivery(q)

\* A filtered subscriber has consumed a matching event although a non-matching
\* one was published too, and another subscriber left before the last publish.
C1_Witness ==
    \E q \in BusQueueIds, r \in BusQueueIds :
        /\ ~consumer_types[q].is_none
        /\ consumed[q] # <<>>
        /\ Len(consumed[q]) < Len(published) - sub_at[q]
        /\ unsub_at[r] # -1
        /\ unsub_at[r] < Len(published)
        /\ sub_at[r] < unsub_at[r]

\* ------------------------------------------------------------------------
\* Properties of the workflow lifecycle (checked under Spec)
\* ------------------------------------------------------------------------

Terminal == {"completed", "error", "cancelled"}
NotAccepting == {"initializing", "completed", "error", "cancelled"}
StatusOf(w) == active_workflows[w].status

\* The transitions of the lifecycle graph; cancel is valid from every
\* non-terminal state.
AllowedTransitions ==
    {<<"initializing", "running">>, <<"initializing", "cancelled">>,
     <<"running", "waiting_for_input">>, <<"waiting_for_input", "running">>,
     <<"running", "completed">>, <<"running", "error">>,
     <<"running", "cancelled">>,
     <<"waiting_for_input", "completed">>, <<"waiting_for_input", "error">>,
     <<"waiting_for_input", "cancelled">>}

\* C2: every change of a workflow's status is a transition of the lifecycle
\* graph; in particular a terminal status never changes again.
C2_StatusFollowsGraph ==
    [][\A w \in Known :
          active_workflows'[w].status # StatusOf(w)
              => <<StatusOf(w), active_workflows'[w].status>> \in AllowedTransitions]_vars

EngineEventNo(w, n) ==
    EventData(w, "TEXT_MESSAGE_START",
              [workflow_id |-> w, event_type |-> "TEXT_MESSAGE_START",
               data |-> [seq |-> n]])
AttachedBeforeRun(w, q) ==
    Head(queues[q]) = EventData(w, "connection_established",
                                [status |-> "initializing"])
ScenarioKinds ==
    {"connection_established", "status_update", "completion"} \cup EngineKinds
FirstIndex(s, kind) ==
    CHOOSE i \in DOMAIN s :
        s[i].event_type = kind /\ \A j \in 1..(i-1) : s[j].event_type # kind

\* C3: a subscriber attached before the run starts gets connection_established,
\* status_update(running), every event the engine emitted before it returned in
\* emission order, and only then completion with the engine's result; with no
\* cancel requested, the status query then answers completed with that result.
C3_RunDeliveredInOrder ==
    \A w \in Known, q \in QueueIds :
        LET seen == SelectSeq(queues[q],
                              LAMBDA ev : ev.event_type \in ScenarioKinds)
        IN (AttachedBeforeRun(w, q)
              /\ \E i \in DOMAIN seen : seen[i].event_type = "completion")
           => LET r == active_workflows[w].result
                  c == FirstIndex(seen, "completion")
              IN /\ SubSeq(seen, 1, c) =
                       <<EventData(w, "connection_established",
                                   [status |-> "initializing"]),
                         EventData(w, "status_update", [status |-> "running"])>>
                       \o [n \in 1..emitted_at_return[w] |-> EngineEventNo(w, n)]
                       \o <<EventData(w, "completion",
                                      [status |-> "completed", result |-> r])>>
                 /\ engine_calls["cancel"] = 0
                      => /\ get_workflow_status(w).status = "completed"
                         /\ get_workflow_status(w).result = r

\* C4: an engine event handed to the callback after the run has ended (the
\* status is terminal from then on) is ignored: it reaches no subscriber queue.
C4_LateEngineEventsIgnored ==
    \A w \in Known, q \in QueueIds, n \in 1..MaxEngineEvents :
        (emitted_at_return[w] # -1 /\ n > emitted_at_return[w])
            => ~InSeq(EngineEventNo(w, n), queues[q])

\* C5: an action submitted while the status is initializing, completed, error
\* or cancelled is answered 400, calls nothing on the engine, suspends no
\* handler, puts no event on any queue and leaves the workflow record as it was.
C5_ActionRejectedOutsideRunning ==
    [][\A w \in Workflows :
          (w \in Known /\ StatusOf(w) \in NotAccepting /\ submit_agent_action(w))
              => /\ response' = Response("action", 400, None)
                 /\ UNCHANGED <<engine_calls, request_pc, queues, active_workflows>>]_vars

C5_Witness ==
    \E w \in Known :
        /\ response = Response("action", 400, None)
        /\ StatusOf(w) \in Terminal
        /\ engine_calls["action"] = 0
        /\ event_queues[w] # <<>>

Attached(w) == {event_queues[w][i] : i \in DOMAIN event_queues[w]}
\* Every queue attached to w gets `ev` appended once, every other queue nothing.
EnqueuedOnce(w, ev) ==
    \A q \in QueueIds :
        queues'[q] = IF q \in Attached(w) THEN Append(queues[q], ev) ELSE queues[q]

C7_CancelRejectedWhenTerminal ==
    [][\A w \in Workflows :
          (w \in Known /\ StatusOf(w) \in Terminal /\ cancel_workflow(w))
              => /\ response'.op = "cancel"
                 /\ response'.code = 400
                 /\ UNCHANGED <<engine_calls, request_pc, queues, active_workflows>>]_vars

\* C8: a cancel request whose engine call raises is answered 500, and neither of
\* its two steps changes the workflow record or puts an event on any queue.
C8_FailedCancelChangesNothing ==
    [][\A w \in Workflows :
          /\ (w \in Known /\ cancel_workflow(w))
                => UNCHANGED <<queues, active_workflows>>
          /\ cancel_workflow_done(w, FALSE)
                => /\ response' = Response("cancel", 500, None)
                   /\ UNCHANGED <<queues, active_workflows>>]_vars

C8_Witness ==
    \E w \in Known, q \in QueueIds :
        /\ response = Response("cancel", 500, None)
        /\ StatusOf(w) = "running"
        /\ q \in Attached(w)
        /\ \A i \in DOMAIN queues[q] : queues[q][i].event_type # "cancelled"

\* C9: when arun raises, the background task ends normally with status error,
\* the error field holding the message and result still null, and exactly one
\* error event with that message is put on every queue attached at that moment
\* (and on no other).
C9_EngineFailureRecorded ==
    [][\A w \in Workflows, e \in EngineErrors :
          run_agent_raise(w, e)
              => /\ run_pc'[w] = "done"
                 /\ active_workflows'[w] =
                        [status |-> "error", result |-> None, error |-> e]
                 /\ EnqueuedOnce(w, EventData(w, "error",
                                    [status |-> "error", error |-> e]))]_vars

C9_Witness ==
    \E w \in Known, q \in QueueIds :
        /\ run_pc[w] = "done"
        /\ get_workflow_status(w).status = "error"
        /\ get_workflow_status(w).error = "boom"
        /\ get_workflow_status(w).result = None
        /\ q \in Attached(w)
        /\ queues[q][Len(queues[q])] =
              EventData(w, "error", [status |-> "error", error |-> "boom"])

\* C10: in every state of a workflow record, result is set only when the status
\* is completed and error only when the status is error.
C10_ResultAndErrorMatchStatus ==
    \A w \in Known :
        /\ active_workflows[w].result # None => StatusOf(w) = "completed"
        /\ active_workflows[w].error # None => StatusOf(w) = "error"

\* ------------------------------------------------------------------------
\* Streaming connections (SpecStream)
\* ------------------------------------------------------------------------
IsConnectionEstablished(event) == event.event_type = "connection_established"
DataEvents(q) ==
    LET data == SelectSeq(frames[q], IsData)
    IN [i \in DOMAIN data |-> data[i].event]

\* A subscribe request that succeeds creates one queue, listed for the workflow
\* and holding one connection_established event with the status the workflow
\* has at that moment.
C11_RegisteredWithSnapshot ==
    \A q \in QueueIds' \ QueueIds :
        \E w \in Known :
            /\ queues'[q] = <<EventData(w, "connection_established",
                                        [status |-> active_workflows[w].status])>>
            /\ InSeq(q, event_queues'[w])
\* What was put on a queue stays where it is: later events go behind it.
C11_QueueAppendOnly ==
    \A q \in QueueIds :
        /\ Len(queues'[q]) >= Len(queues[q])
        /\ SubSeq(queues'[q], 1, Len(queues[q])) = queues[q]
\* The frames a connection has delivered carry the events of its queue in queue
\* order, the first one is the connection_established event and no other is.
C11_FirstFrameIsSnapshot ==
    \A q \in QueueIds :
        /\ DataEvents(q) = SubSeq(queues[q], 1, Len(DataEvents(q)))
        /\ \A i \in DOMAIN queues[q] :
               IsConnectionEstablished(queues[q][i]) <=> i = 1
        /\ frames[q] # <<>> => /\ IsData(frames[q][1])
                               /\ IsConnectionEstablished(frames[q][1].event)

\* C11: the first event a streaming connection delivers is the one
\* connection_established event, carrying the workflow's status at the moment
\* the subscription was registered; nothing published after the registration
\* is delivered before it.
C11_ConnectionEstablishedFirst ==
    /\ []C11_FirstFrameIsSnapshot
    /\ [][C11_RegisteredWithSnapshot /\ C11_QueueAppendOnly]_vars
\* A client that attached after the run completed has been delivered the
\* snapshot with status completed, and a second frame after it.
C11_Witness ==
    \E q \in QueueIds :
        /\ Len(frames[q]) >= 2
        /\ frames[q][1].event.data.status = "completed"

\* C12: on every way a streaming connection can end, its queue is taken off the
\* workflow's subscriber list, so the queue of an ended connection is never
\* still listed.
C12_EndedConnectionUnlisted ==
    \A q \in QueueIds :
        gen_pc[q] = "closed" =>
            \/ WorkflowOf(q) \notin DOMAIN event_queues
            \/ ~InSeq(q, event_queues[WorkflowOf(q)])

Listed(q) ==
    /\ WorkflowOf(q) \in DOMAIN event_queues
    /\ InSeq(q, event_queues[WorkflowOf(q)])
Looping(q) == q \in QueueIds /\ gen_pc[q] \in {"check", "wait", "yield"}

\* Once the client is gone the loop has one way left: from the queue wait to
\* the yield of that one frame, from there to the disconnect check, and from
\* the check out of the loop.
C13_AtMostOnePoll ==
    \A q \in ConnIds :
        Looping(q) /\ disconnected[q] /\ gen_pc'[q] # gen_pc[q] =>
            <<gen_pc[q], gen_pc'[q]>> \in
                {<<"wait", "yield">>, <<"yield", "check">>, <<"wait", "closed">>,
                 <<"yield", "closed">>, <<"check", "closed">>}
\* Leaving the loop takes this connection's queue, and no other, off the list.
C13_ExitDropsOne ==
    \A q \in ConnIds :
        Looping(q) /\ gen_pc'[q] = "closed" =>
            /\ Listed(q)
            /\ event_queues' = [event_queues EXCEPT ![WorkflowOf(q)] = RemoveFirst(@, q)]
            /\ Len(event_queues'[WorkflowOf(q)]) = Len(event_queues[WorkflowOf(q)]) - 1
            /\ ~InSeq(q, event_queues'[WorkflowOf(q)])

\* C13: when the client of a running streaming loop disconnects, the loop sees
\* it within one more poll iteration and exits, and the workflow's subscriber
\* list loses exactly this connection's queue.
C13_DisconnectReleasesSubscription ==
    /\ [][C13_AtMostOnePoll /\ C13_ExitDropsOne]_vars
    /\ \A q \in ConnIds :
           (Looping(q) /\ disconnected[q]) ~> (gen_pc[q] = "closed" /\ ~Listed(q))
\* A client that had been delivered frames went away; the loop has seen the
\* disconnect and released the queue.
C13_Witness ==
    \E q \in QueueIds :
        /\ disconnected[q]
        /\ gen_pc[q] = "closed"
        /\ Len(frames[q]) >= 2
        /\ ~Listed(q)

\* ------------------------------------------------------------------------
\* EventBus: private queues and the registry (SpecBus)
\* ------------------------------------------------------------------------
\* The places <<i, j>> of the registry: queue j of filter entry i
Places == {p \in (DOMAIN subscribers) \X (1..MaxBusSubscribers) :
               p[2] \in DOMAIN subscribers[p[1]].queues}
QueueAt(p) == subscribers[p[1]].queues[p[2]]
Registered(q) == \E p \in Places : QueueAt(p) = q

\* No queue stands at two places of the registry.
C14_NoSharedQueue ==
    \A p1, p2 \in Places : QueueAt(p1) = QueueAt(p2) => p1 = p2
\* A subscribe call that registers makes a queue that did not exist, empty.
C14_FreshQueue ==
    \A q \in BusQueueIds' :
        Registered(q)' /\ ~Registered(q) => q \notin BusQueueIds /\ bus_queue'[q] = <<>>
\* A publish appends the event once to every registered queue whose filter
\* matches, and leaves every other queue as it is.
C14_OnePutPerQueue ==
    Len(published') = Len(published) + 1 =>
        LET event == published'[Len(published')]
        IN \A q \in BusQueueIds :
               bus_queue'[q] =
                   IF Registered(q) /\ InFilter(consumer_types[q], event)
                   THEN Append(bus_queue[q], event) ELSE bus_queue[q]
\* Taking an event off one queue leaves every other queue as it is.
C14_ConsumeIsPrivate ==
    \A q \in BusQueueIds :
        consumed'[q] # consumed[q] =>
            \A other \in BusQueueIds \ {q} :
                bus_queue'[other] = bus_queue[other] /\ consumed'[other] = consumed[other]
\* Two subscribers with the same filter, attached before any publish and still
\* attached, have been handed the same events in the same order.
C14_IdenticalSequences ==
    \A q1, q2 \in BusQueueIds :
        /\ consumer_types[q1] = consumer_types[q2]
        /\ sub_at[q1] = 0 /\ sub_at[q2] = 0
        /\ unsub_at[q1] = -1 /\ unsub_at[q2] = -1
        => consumed[q1] \o bus_queue[q1] = consumed[q2] \o bus_queue[q2]

\* C14: two subscribers never share a queue: every subscribe registers a fresh
\* queue, a published event is put once on each matching subscriber's queue,
\* consuming from one queue changes no other, and two subscribers attached
\* before any publish receive identical sequences.
C14_QueuesArePrivate ==
    /\ [](C14_NoSharedQueue /\ C14_IdenticalSequences)
    /\ [][C14_FreshQueue /\ C14_OnePutPerQueue /\ C14_ConsumeIsPrivate]_vars
\* Two subscribers of the same filter attached before the first publish; two
\* events were published, one subscriber has consumed both, the other none.
C14_Witness ==
    \E q1, q2 \in BusQueueIds :
        /\ q1 # q2
        /\ consumer_types[q1] = consumer_types[q2]
        /\ sub_at[q1] = 0 /\ sub_at[q2] = 0
        /\ unsub_at[q1] = -1 /\ unsub_at[q2] = -1
        /\ Len(consumed[q1]) = 2 /\ bus_queue[q1] = <<>>
        /\ consumed[q2] = <<>> /\ Len(bus_queue[q2]) = 2

\* No filter key of the registry maps to an empty list of queues.
C18_NoEmptyEntry ==
    \A i \in DOMAIN subscribers : subscribers[i].queues # <<>>
\* The queues listed under filter key k
QueuesOf(entries, k) ==
    IF k \in Keys(entries) THEN entries[IndexOfKey(entries, k)].queues ELSE <<>>
\* A step that takes queue q out of the registry takes it out of the list of its
\* key and changes no other list; the key is gone exactly when q was the last.
C18_RemovesOneQueue ==
    \A q \in BusQueueIds :
        Registered(q) /\ ~Registered(q)' =>
            LET k == consumer_types[q]
            IN /\ QueuesOf(subscribers', k) = RemoveFirst(QueuesOf(subscribers, k), q)
               /\ (k \in Keys(subscribers')) <=> (QueuesOf(subscribers, k) # <<q>>)
               /\ \A other \in Keys(subscribers) \ {k} :
                      QueuesOf(subscribers', other) = QueuesOf(subscribers, other)
               /\ Keys(subscribers') \subseteq Keys(subscribers)
\* Unsubscribing a consumer whose queue is not registered leaves the registry
\* as it is.
C18_UnregisteredIsNoOp ==
    \A q \in BusQueueIds :
        ~Registered(q) => Unsubscribed(subscribers, q) = subscribers

\* C18: after any sequence of subscribe and unsubscribe calls no filter key of
\* the registry maps to an empty queue list: unsubscribe removes the consumer's
\* queue and deletes the key's entry when that was its last queue, and
\* unsubscribing a consumer that is not registered changes nothing.
C18_NoEmptyFilterBucket ==
    /\ [](C18_NoEmptyEntry /\ C18_UnregisteredIsNoOp)
    /\ [][C18_RemovesOneQueue]_vars
\* One subscriber's unsubscribe has deleted its filter key, another key is
\* still registered.
C18_Witness ==
    \E q \in BusQueueIds :
        /\ unsub_at[q] # -1
        /\ consumer_types[q] \notin Keys(subscribers)
        /\ subscribers # <<>>

\* ------------------------------------------------------------------------
\* Publishing on the event loop (SpecLoop)
\* ------------------------------------------------------------------------
Copies(event, q) == Len(SelectSeq(queues[q], LAMBDA x : x = event))
Backlog(q) == Len(queues[q]) - got[q]
Returning(t) == emit[t].pc # "await" /\ emit'[t].pc = "await"
Emitted(t) == emit[t].event # NoEvent /\ emit[t].pc = "await"

\* No publisher is ever suspended at a put.
C15_NeverSuspendedAtPut ==
    \A t \in Publishers : emit[t].pc # "blocked"
\* A publisher that has entered _emit_event keeps the loop until the call
\* returns, and at the return every listed queue ends with the event.
C15_RunsToItsReturn ==
    \A t \in Publishers :
        /\ loop_owner = t => loop_owner' = t \/ Returning(t)
        /\ Returning(t) =>
               \A q \in Attached(emit[t].event.workflow_id) :
                   queues'[q][Len(queues'[q])] = emit[t].event

\* C15: a publish completes without waiting for any subscriber to consume:
\* whatever the backlog of a subscriber's queue, the publisher is never
\* suspended and at its return every subscriber has the event.
C15_PublishNeverBlocks ==
    /\ []C15_NeverSuspendedAtPut
    /\ [][C15_RunsToItsReturn]_vars
\* A publish has returned; one subscriber has two events it has not taken yet,
\* the event among them, and another has taken everything, the event included.
C15_Witness ==
    \E t \in Publishers, slow, fast \in QueueIds :
        /\ Emitted(t)
        /\ {slow, fast} \subseteq emit[t].listed
        /\ Backlog(slow) >= 2 /\ Copies(emit[t].event, slow) = 1
        /\ Backlog(fast) = 0 /\ Copies(emit[t].event, fast) = 1

\* No queue ever holds two copies of one published event.
C16_NoDuplicate ==
    \A t \in Publishers, q \in QueueIds :
        emit[t].event # NoEvent => Copies(emit[t].event, q) <= 1
\* The list of subscribers changes only while no publish is under way.
C16_RegistryChangesBetweenPublishes ==
    event_queues' # event_queues => \A t \in Publishers : emit[t].pc = "await"
\* When a publish returns, every queue that was listed when it began and is
\* listed now holds the event once.
C16_NoSkip ==
    \A t \in Publishers :
        Returning(t) =>
            \A q \in emit[t].listed \cap Attached(emit[t].event.workflow_id)' :
                Len(SelectSeq(queues'[q], LAMBDA x : x = emit[t].event)) = 1

\* C16: subscribe and unsubscribe cannot disturb a publish that iterates the
\* subscriber list: the publish does not fail, skips no subscriber that stayed
\* listed from its begin to its return, and gives no subscriber the event twice.
C16_RegistrySafeUnderPublish ==
    /\ []C16_NoDuplicate
    /\ [][C16_RegistryChangesBetweenPublishes /\ C16_NoSkip]_vars
\* The run has published both its events; a subscriber that stayed holds both,
\* one that left between the two holds the first only.
C16_Witness ==
    \E stayed, left \in QueueIds :
        /\ todo["run"] = <<>> /\ Emitted("run")
        /\ stayed \in emit["run"].listed /\ left \notin emit["run"].listed
        /\ Copies(StatusEvent("w1", "running"), stayed) = 1
        /\ Copies(StatusEvent("w1", "running"), left) = 1
        /\ Copies(emit["run"].event, stayed) = 1
        /\ Copies(emit["run"].event, left) = 0

\* C17: a status change and its event are one step for every reader: whenever
\* another task can run (a status query, a new subscriber taking its snapshot)
\* and the record shows a status, the event of that status change is on the
\* queue of every subscriber that was listed when the status was written.
C17_StatusAndEventAtomic ==
    loop_owner = "idle" =>
        \A t \in Publishers, w \in Known :
            /\ emit[t].event # NoEvent
            /\ emit[t].event.workflow_id = w
            /\ emit[t].event.data.status = active_workflows[w].status
            => \A q \in emit[t].listed : Copies(emit[t].event, q) = 1
\* The run was cancelled while a subscriber was listed; the subscriber holds
\* the cancelled event, and a subscriber that attached afterwards got the
\* status cancelled in its snapshot.
C17_Witness ==
    \E before, after \in QueueIds :
        /\ loop_owner = "idle"
        /\ active_workflows["w1"].status = "cancelled"
        /\ Emitted("cancel")
        /\ before \in emit["cancel"].listed /\ after \notin emit["cancel"].listed
        /\ Copies(emit["cancel"].event, before) = 1
        /\ Head(queues[after]).data.status = "cancelled"

\* ------------------------------------------------------------------------
\* EventProcessor (SpecProc)
\* ------------------------------------------------------------------------
Live == {i \in DOMAIN tasks : tasks[i] \in {"running", "cancelling"}}

\* C19: start() is idempotent while running: whatever start() and stop() calls
\* were made, the processor has at most one background task that has not
\* ended, and a start() made while its task has not ended creates no task.
C19_AtMostOneLiveTask ==
    /\ [](Cardinality(Live) <= 1)
    /\ [][starts' = starts + 1 /\ Live # {} => tasks' = tasks /\ self_task' = self_task]_vars
\* start() was called twice while the first task was running: one task exists.
C19_Witness ==
    /\ starts = 2
    /\ tasks = <<"running">>

Called(pcs) == {c \in StopCalls : stop_calls[c].pc \in pcs}

C20_ClosesAfterTheTask ==
    \A c \in StopCalls :
        stop_calls[c].pc # stop_calls'[c].pc /\ stop_calls'[c].pc \in {"returned", "close_raised"} =>
            /\ stop_calls[c].awaited # 0 => tasks[stop_calls[c].awaited] \in {"finished", "cancelled"}
            /\ consumer_closed' = consumer_closed + 1
            /\ emitter_closed' = emitter_closed +
                                     (IF stop_calls'[c].pc = "returned" THEN 1 ELSE 0)
\* A stop() that finds a task that has not ended cancels it and waits for it.
C20_CancelsAndWaits ==
    \A c \in StopCalls :
        stop_calls[c].pc = "idle" /\ stop_calls'[c].pc # "idle" =>
            IF Live = {} THEN stop_calls'[c] = [pc |-> "closing", awaited |-> 0]
            ELSE /\ stop_calls'[c] = [pc |-> "awaiting", awaited |-> self_task]
                 /\ tasks'[self_task] = "cancelling"
\* Every stop() call that got to its closes has closed the consumer once, every
\* call that returned has closed the emitter once; a call left by the task's
\* own exception has closed nothing.
C20_OncePerCall ==
    /\ consumer_closed = Cardinality(Called({"returned", "close_raised"}))
    /\ emitter_closed = Cardinality(Called({"returned"}))

C21_StopAlwaysClosesBoth ==
    /\ consumer_closed >= Cardinality(Called({"returned", "raised", "close_raised"}))
    /\ emitter_closed >= Cardinality(Called({"returned", "raised", "close_raised"}))

\* C22: close() is idempotent on both transports: however many close() calls
\* are made, the session/socket is released at most once, a close() call that
\* returns leaves no connection of the transport open, and close() before any
\* connection was opened releases nothing.
C22_CloseIdempotent ==
    /\ [](released <= 1)
    /\ [](opened = 0 => released = 0)
    /\ [][\A c \in CloseCalls :
              (close_calls[c] # "returned" /\ close_calls'[c] = "returned")
                  => (transport'.handle # "open" \/ transport'.peer_gone)]_vars

\* The events of the frames that decode, in the order of the frames
RECURSIVE Decodable(_)
Decodable(inbound) ==
    IF inbound = <<>> THEN <<>>
    ELSE IF from_json(Head(inbound)).ok
         THEN <<from_json(Head(inbound)).event>> \o Decodable(Tail(inbound))
         ELSE Decodable(Tail(inbound))

\* C23: receive_events yields exactly the decodable frames in arrival order,
\* and a frame that cannot be decoded never terminates the stream.
C23_BadFramesSkipped ==
    /\ yielded = Decodable(received)
    /\ rx_pc # "raised"

\* C24: on an SSE transport every send_event call fails with
\* NotImplementedError, opens no connection and changes nothing of the
\* transport, whether it was never connected, is connected or is closed.
C24_SseSendUnsupported ==
    /\ [](transport.kind = "sse" => send_result.outcome \in {"none", "NotImplementedError"})
    /\ [][(transport.kind = "sse" /\ send_result' # send_result)
              => /\ send_result'.outcome = "NotImplementedError"
                 /\ UNCHANGED <<transport, opened, released, close_calls, buffer,
                                received, yielded, rx_pc>>]_vars

C24_Witness ==
    /\ transport.kind = "sse"
    /\ transport._closed
    /\ send_result = [outcome |-> "NotImplementedError", handle |-> "closed"]

\* C25: when the peer closes the WebSocket connection, receive_events ends
\* normally, having yielded every event decoded from the frames that arrived
\* before the close.
C25_PeerCloseEndsCleanly ==
    [][(transport.kind = "ws" /\ rx_pc = "reading" /\ buffer = <<>> /\ rx_pc' # "reading")
           => /\ rx_pc' = "ended"
              /\ yielded' = Decodable(received)]_vars

C25_Witness ==
    /\ transport.kind = "ws"
    /\ transport.peer_gone /\ transport.handle = "open"
    /\ rx_pc = "ended"
    /\ Len(yielded) = 2

\* C26: decode(encode(e)) == e for every valid event e, built directly as a
\* BaseEvent or with a construction helper, equality being that of the events.
C26_RoundTrip ==
    codec.pc = "decoded" => (codec.output.ok /\ eq(codec.output.event, codec.input))

\* C27: each engine event {type, data} is republished as exactly one event on
\* every queue of its workflow, tagged with the workflow id, with the engine
\* event's type and with the engine event's data unchanged.
C27_EnginePassThrough ==
    [][\A w \in Workflows :
          (pending_tasks[w] # <<>> /\ pending_tasks'[w] = Tail(pending_tasks[w]))
              => EnqueuedOnce(w, EventData(w, Head(pending_tasks[w]).type,
                                           Head(pending_tasks[w]).data))]_vars

\* The event a submission emits: its kind and the body of the request
SubmittedEvent(w, op) ==
    IF op = "action"
    THEN EventData(w, "action_submitted",
                   [action_type |-> submitted[w][op].type,
                    action_data |-> submitted[w][op].data])
    ELSE EventData(w, "feedback_submitted",
                   [feedback_type |-> submitted[w][op].type,
                    feedback_data |-> submitted[w][op].data])

\* C28: an action or feedback submission puts no event while the engine call
\* is in flight; when the call succeeded the request is answered 200 and
\* exactly one action_submitted / feedback_submitted event carrying the
\* submitted type and data is put on every queue of the workflow; when the
\* call failed the request is answered 500 and no event is put.  The workflow
\* record is unchanged in both cases.
C28_SubmissionEvents ==
    [][\A w \in Workflows, op \in BodyOps :
          /\ (~InFlight(w, op) /\ InFlight(w, op)')
                => UNCHANGED <<queues, active_workflows>>
          /\ (InFlight(w, op) /\ ~InFlight(w, op)')
                => \/ /\ response' = Response(op, 200, StatusOf(w))
                      /\ EnqueuedOnce(w, SubmittedEvent(w, op))
                      /\ UNCHANGED active_workflows
                   \/ /\ response' = Response(op, 500, None)
                      /\ UNCHANGED <<queues, active_workflows>>
          /\ (submit_agent_action_done(w, FALSE) \/ submit_agent_feedback_done(w, FALSE))
                => response'.code = 500]_vars

C28_Witness ==
    \E w \in Known, q \in QueueIds :
        /\ response = Response("action", 200, StatusOf(w))
        /\ q \in Attached(w)
        /\ queues[q] # <<>>
        /\ queues[q][Len(queues[q])] =
               EventData(w, "action_submitted", [action_type |-> "u", action_data |-> "e"])

\* C29: a status query for a workflow or graph execution that was ever created
\* succeeds in every state, returning the record's current status, result and
\* error; only an id that was never created yields 404.  Records are never
\* removed, and no graph definition that an execution refers to is deleted.
C29_StatusQueryAlwaysSucceeds ==
    /\ [](\A w \in Workflows :
             get_workflow_status(w) =
                 IF run_pc[w] = "none"
                 THEN [code |-> 404, status |-> None, result |-> None, error |-> None]
                 ELSE [code |-> 200, status |-> active_workflows[w].status,
                       result |-> active_workflows[w].result,
                       error |-> active_workflows[w].error])
    /\ [](\A e \in ExecutionIds :
             IF exec_pc[e] = "none"
             THEN get_execution_status(e).code = 404
             ELSE /\ get_execution_status(e).code = 200
                  /\ get_execution_status(e).status = active_executions[e].status
                  /\ get_execution_status(e).result = active_executions[e].result
                  /\ get_execution_status(e).error = active_executions[e].error)
    /\ [][Known \subseteq Known' /\ Executions \subseteq Executions']_vars

\* An execution that was cancelled after it completed is queried after a
\* definition was deleted and the deletion of its own graph was refused
C29_Witness ==
    \E e \in Executions :
        /\ graph_response = GraphResponse(400)
        /\ Cardinality(Graphs) < graphs_created
        /\ get_execution_status(e).code = 200
        /\ get_execution_status(e).status = "cancelled"
        /\ get_execution_status(e).result \in EngineResults
        /\ \E w \in Known : get_workflow_status(w).status = "error"

\* C30: every event emitted through an emitter returned by create_emitter is
\* eventually published on the manager's event bus, in emission order.
C30_EmittedEventuallyPublished ==
    \A n \in 1..MaxEmits :
        (Len(mgr_emitted) >= n)
            ~> (Len(published) >= n /\ published[n] = mgr_emitted[n])

\* C31: every iteration of the streaming loop writes one frame, the head of the
\* queue when it holds an event and a keepalive otherwise, so the data frames
\* a connection has written are exactly the events its loop has taken off the
\* queue, in queue order: no taken event is left without a frame.
C31_FramesEqualTaken ==
    \A q \in QueueIds :
        DataEvents(q) = SubSeq(queues[q], 1, taken[q])

\* The events a processor with this transform emits for the events consumed,
\* as the claim states it: the event itself without a transform, otherwise
\* transform(e) unless that is the drop signal.
RECURSIVE ExpectedEmitted(_, _)
ExpectedEmitted(transform, events) ==
    IF events = <<>> THEN <<>>
    ELSE LET e == Head(events)
             out == IF transform = "None" THEN <<e>>
                    ELSE IF transform_fn(transform, e) = NoneEvent THEN <<>>
                    ELSE <<transform_fn(transform, e)>>
         IN out \o ExpectedEmitted(transform, Tail(events))

\* C32: the processor forwards one-for-one in consumption order: what its
\* emitter has been handed is, event by event, the consumed events without a
\* transform, and transform(e) for each consumed e that the transform did not
\* drop with one; nothing else is ever emitted.
C32_ForwardsOneForOne ==
    pipeline.emitted = ExpectedEmitted(pipeline.transform_fn, pipeline.consumed)
\* A processor with the filtering transform has consumed an ERROR event and an
\* event of another type and emitted only the second
C32_Witness ==
    /\ pipeline.transform_fn = "drop_errors"
    /\ Len(pipeline.consumed) = 2
    /\ \E i \in 1..2 : pipeline.consumed[i].type = "ERROR"
    /\ Len(pipeline.emitted) = 1
    /\ pipeline.emitted[1].type = "RUN_STARTED"

\* The executions of a graph that have not reached a terminal status
Unfinished(graph_id) ==
    {e \in active_for_graph(graph_id) :
        active_executions[e].status \notin Terminal}

\* C33: a delete_graph_definition request for a stored definition is refused
\* with 400, the definition kept, exactly when one of the graph's executions
\* has not reached completed, error or cancelled; when all of them have, the
\* definition is deleted.
C33_RefusedExactlyWhileActive ==
    [][\A g \in Graphs :
          delete_graph_definition(g) =>
              IF Unfinished(g) # {}
              THEN g \in Graphs' /\ graph_response' = GraphResponse(400)
              ELSE g \notin Graphs' /\ graph_response' = GraphResponse(200)]_vars

\* Number of entries `what` in a call log
Count(log, what) == Cardinality({i \in DOMAIN log : log[i] = what})
Finished(call) == call.pc \in {"returned", "raised"}
\* Every time.sleep of the retry loop lies between two calls of `what`
SleepsBetween(log, what) ==
    \A i \in DOMAIN log :
        log[i] = "time.sleep" =>
            /\ i > 1 /\ log[i - 1] = what
            /\ i < Len(log) => log[i + 1] = what

\* One call never issues more than max_retries + 1 requests
C34_AtMostMaxRetriesPlusOne ==
    Count(request_call.log, "session.request") <= request_call.max_retries + 1
\* A finished call whose every attempt failed with a request exception made
\* max_retries + 1 requests with max_retries sleeps between them, and returned
\* None, or raised HTTPError when raise_for_status was set and the last failure
\* was an HTTP error
C34_AllAttemptsFailed ==
    LET call == request_call
        n == Count(call.log, "session.request")
    IN Finished(call) /\ n >= 1 /\ Len(call.failures) = n =>
           /\ n = call.max_retries + 1
           /\ Count(call.log, "time.sleep") = call.max_retries
           /\ SleepsBetween(call.log, "session.request")
           /\ IF call.raise_for_status /\ call.failures[n].kind = "requests.HTTPError"
              THEN /\ call.pc = "raised"
                   /\ call.raised = HTTPError(call.failures[n].status_code)
              ELSE /\ call.pc = "returned"
                   /\ call.returned = NoneResult
\* A call with a URL that fails validation or is already in visited_urls
\* returns None at once: no wait, no request
C34_SkippedWithoutRequest ==
    \A url \in Urls, valid \in BOOLEAN, tracked \in BOOLEAN, limited \in BOOLEAN,
       max_retries \in 0..MaxRetries, raise_for_status \in BOOLEAN :
        /\ safe_request(url, valid, tracked, limited, max_retries, raise_for_status)
        /\ ~valid \/ (tracked /\ url \in visited_urls)
        => /\ request_call'.pc = "returned"
           /\ request_call'.returned = NoneResult
           /\ request_call'.log = <<>>
\* visited_urls only grows by the URL of the call, in the step in which the
\* call returns a response with a success status
C34_VisitedAfterSuccessStatus ==
    visited_urls' # visited_urls =>
        /\ visited_urls' = visited_urls \cup {request_call.url}
        /\ request_call'.pc = "returned"
        /\ request_call'.returned.kind = "Response"
        /\ request_call'.returned.status_code < 400
\* visited_urls only grows by the URL of the call, in the step in which the
\* call returns a response: one that passed the status check when
\* raise_for_status is set, any response when it is not
C34_VisitedAfterReturnedResponse ==
    visited_urls' # visited_urls =>
        /\ visited_urls' = visited_urls \cup {request_call.url}
        /\ request_call'.pc = "returned"
        /\ request_call'.returned.kind = "Response"
        /\ request_call.raise_for_status => request_call'.returned.status_code < 400

\* C34, as stated: at most max_retries + 1 requests per call; exactly that
\* many, with max_retries sleeps between them and None (or HTTPError) at the
\* end, when every attempt fails with a request exception; no request for a
\* URL that is invalid or already visited; the URL is added to visited_urls
\* only after a successful response.
C34_SafeRequestAsStated ==
    /\ [](C34_AtMostMaxRetriesPlusOne /\ C34_AllAttemptsFailed)
    /\ [][C34_SkippedWithoutRequest /\ C34_VisitedAfterSuccessStatus]_vars

\* C34, amended: the same, with the URL added to visited_urls only when the
\* call returns a response, which with raise_for_status unset may carry an
\* error status.
C34_SafeRequestBounded ==
    /\ [](C34_AtMostMaxRetriesPlusOne /\ C34_AllAttemptsFailed)
    /\ [][C34_SkippedWithoutRequest /\ C34_VisitedAfterReturnedResponse]_vars
\* After a call that added its URL to visited_urls, a call with max_retries = 2
\* failed three times, the last time with an HTTP error, and raised HTTPError
C34_Witness ==
    /\ visited_urls # {}
    /\ request_call.max_retries = 2
    /\ Len(request_call.failures) = 3
    /\ request_call.failures[1].kind = "requests.ConnectionError"
    /\ request_call.raised = HTTPError(503)

\* One call of the wrapper never invokes the function more than n + 1 times
C35_AtMostNPlusOne ==
    Count(wrapper_call.log, "func") <= wrapper_call.max_retries + 1
\* A finished call whose every invocation raised a listed exception invoked the
\* function n + 1 times with n sleeps between, and re-raised the last one
C35_ListedReraised ==
    LET call == wrapper_call
        n == Count(call.log, "func")
    IN /\ Finished(call) /\ n >= 1 /\ Len(call.failures) = n
       /\ \A i \in 1..n : IsListed(call.failures[i])
       => /\ n = call.max_retries + 1
          /\ Count(call.log, "time.sleep") = call.max_retries
          /\ SleepsBetween(call.log, "func")
          /\ call.pc = "raised"
          /\ call.raised = call.failures[n]
\* An invocation raising an exception that is not listed ends the call with
\* that exception: no sleep and no invocation follows; raised by the first
\* invocation it leaves a call of one invocation
C35_UnlistedPropagates ==
    \A outcome \in FuncOutcomes :
        /\ func(outcome)
        /\ outcome.kind \notin {"Response", "str"}
        /\ ~IsListed(outcome)
        => /\ wrapper_call'.pc = "raised"
           /\ wrapper_call'.raised = outcome
           /\ wrapper_call'.log = Append(wrapper_call.log, "func")
           /\ wrapper_call.attempt = 0 => wrapper_call'.log = <<"func">>
\* A response whose status is in retry_codes is followed by a sleep and another
\* invocation while attempts remain, and is returned when none does
C35_RetryCodeRetried ==
    \A outcome \in FuncOutcomes :
        /\ func(outcome)
        /\ outcome.kind = "Response"
        /\ outcome.status_code \in retry_codes
        => IF wrapper_call.attempt < wrapper_call.max_retries
           THEN /\ wrapper_call'.pc = "attempt"
                /\ wrapper_call'.attempt = wrapper_call.attempt + 1
                /\ wrapper_call'.log = wrapper_call.log \o <<"func", "time.sleep">>
           ELSE /\ wrapper_call'.pc = "returned"
                /\ wrapper_call'.returned = outcome

\* C35: a function wrapped by retry_on_error(max_retries=n) is invoked at most
\* n + 1 times per call; a listed exception raised on every attempt is
\* re-raised after n + 1 invocations and n sleeps; an exception that is not
\* listed propagates at once; a response with a retry code is retried while
\* attempts remain and the last response is returned once they are used up.
C35_RetryOnErrorBounded ==
    /\ [](C35_AtMostNPlusOne /\ C35_ListedReraised)
    /\ [][C35_UnlistedPropagates /\ C35_RetryCodeRetried]_vars
\* In the second call made, a
\* call with n = 2 got a retry code three times and returned the last response
C35_Witness ==
    /\ calls = 2
    /\ wrapper_call.max_retries = 2
    /\ wrapper_call.log = <<"func", "time.sleep", "func", "time.sleep", "func">>
    /\ wrapper_call.failures = <<Response503, Response503>>
    /\ wrapper_call.returned = Response503

TerminalEvents == {"completion", "error", "cancelled"}
\* The terminal events put on a subscriber queue, oldest first
TerminalEventsOn(q) ==
    SelectSeq(queues[q], LAMBDA event : event.event_type \in TerminalEvents)

\* C36: whatever the order in which the background run finishes and cancel
\* requests arrive, a subscriber of a workflow is sent at most one terminal
\* event (completion, error or cancelled).
C36_AtMostOneTerminalEvent ==
    \A q \in QueueIds : Len(TerminalEventsOn(q)) <= 1

\* The queues on the subscriber list of workflow w
RegisteredFor(w) == IF w \in DOMAIN event_queues THEN Attached(w) ELSE {}
\* A step changes something of workflow w: its record, its list of subscriber
\* queues, or the contents of a queue on that list
Touched(w) ==
    \/ w \in Known' \ Known
    \/ w \in Known /\ active_workflows'[w] # active_workflows[w]
    \/ w \in DOMAIN event_queues /\ event_queues'[w] # event_queues[w]
    \/ \E q \in RegisteredFor(w) : queues'[q] # queues[q]
\* No step changes anything of two workflows
C37_OneWorkflowPerStep ==
    \A a, b \in Workflows : a # b => ~(Touched(a) /\ Touched(b))
\* An event put on a queue that existed carries the id of a workflow the queue
\* is registered for
C37_OnlyRegisteredQueues ==
    \A q \in QueueIds :
        \A i \in (Len(queues[q]) + 1)..Len(queues'[q]) :
            q \in RegisteredFor(queues'[q][i].workflow_id)
\* _emit_event for an id without an entry in event_queues changes no queue
C37_NoEntryNoOp ==
    \A w \in Workflows \ DOMAIN event_queues, s \in Statuses :
        _emit_event(queues, w, "status_update", [status |-> s]) = queues

\* C37: events are isolated per workflow: an event emitted for workflow A is
\* put only on queues registered for A, every other workflow's queues and
\* record stay as they were, and emitting for an id without a queue entry does
\* nothing.
C37_EventsIsolatedPerWorkflow ==
    /\ []C37_NoEntryNoOp
    /\ [][C37_OneWorkflowPerStep /\ C37_OnlyRegisteredQueues]_vars
\* Both workflows have a subscriber; the one of w2 was registered first and
\* holds only its connection_established event, while the one of w1 has
\* received w1's terminal event
C37_Witness ==
    \E q1 \in RegisteredFor("w1"), q2 \in RegisteredFor("w2") :
        /\ q2 < q1
        /\ Len(queues[q2]) = 1
        /\ queues[q1][Len(queues[q1])].event_type \in TerminalEvents

\* C38: once close() has completed on a WebSocketTransport, every later close()
\* call that returns leaves no socket of the transport open, whatever
\* send_event and receive_events calls were made in between.
C38_NoSocketLeftOpenAfterClose ==
    [][\A c \in CloseCalls :
          /\ transport.kind = "ws"
          /\ transport._closed
          /\ close_calls[c] # "returned"
          /\ close_calls'[c] = "returned"
          => ~(transport'.handle = "open" /\ ~transport'.peer_gone)]_vars

\* C39: in every reachable state the graph_id of every execution record is the
\* id of a definition that is still in graph_definitions, however execute_graph,
\* delete_graph_definition and the executions' completions interleave.
C39_ExecutionGraphExists ==
    \A e \in Executions : active_executions[e].graph_id \in Graphs
\* An execution has completed, the deletion of its graph was refused and
\* another definition was deleted
C39_Witness ==
    \E e \in Executions :
        /\ active_executions[e].status = "completed"
        /\ active_executions[e].graph_id \in Graphs
        /\ graph_response = GraphResponse(400)
        /\ Cardinality(Graphs) < graphs_created
====
